---------------------------- MODULE Spec2Model ----------------------------
(***************************************************************************)
(* State-machine model of app.py (KOSPI / KOSDAQ dashboard):               *)
(*   - fetch_krx_futures_by_date       (resilient fetch ladder + fallback) *)
(*   - _get_latest_kospi_night_futures_cached (multi-date search)          *)
(*   - build_kospi_night_candidates / select_latest_kospi_night_contract   *)
(*   - update_dashboard alignment, calculate_y_axis_bounds,                *)
(*     get_extrema_info                                                    *)
(*   - get_market_countdown_context / computeContext (session countdown)   *)
(*   - extract_rows_from_krx_payload   (rows of a KRX response)            *)
(*   - get_valid_data                  (look-back for index data)          *)
(* Each component has its own specification (SpecFetch, SpecSearch,        *)
(* SpecResolve, SpecAlign, SpecCal, SpecExtract, SpecValid); the variables *)
(* of the other components stay at their idle values.                      *)
(***************************************************************************)
EXTENDS Integers, Sequences, FiniteSets, TLC

VARIABLES
    \* ---- fetch_krx_futures_by_date
    f_pc,           \* position in the function
    profile_idx,    \* index into header_profiles (outer for loop)
    timeout_idx,    \* index into (10, 20) (inner for loop)
    last_err,       \* local last_err
    last_profile,   \* local last_profile
    response,       \* local response of the running attempt
    attempt_log,    \* history: start / fail / ok events of primary attempts
    request_log,    \* history: every network call issued, in order
    last_request,   \* the most recent network call, with its URL
    curl_output,    \* history: what the curl subprocess gave, None before it
    f_result,       \* what the call returned or raised
    \* ---- select_latest_kospi_night_contract
    r_pc,           \* "input" before the call, "resolved" after it
    rows,           \* the rows argument
    current_yyyymm, \* get_current_yyyymm_kst() at the call
    candidates,     \* build_kospi_night_candidates(rows)
    target_month,   \* the winning contract month (0 when there is none)
    selected,       \* the returned row, <<>> for None
    changed,        \* index of the row whose BAS_DD was changed, 0 if none
    \* ---- _get_latest_kospi_night_futures_cached
    s_pc,               \* "loop" inside the for loop, "done" after return
    bas_dd_candidates,  \* the bas_dd_candidates argument
    cand_idx,           \* position of the for loop in bas_dd_candidates
    s_current_yyyymm,   \* local current_yyyymm
    debug_logs,         \* local debug_logs
    last_error,         \* local last_error
    fetch_calls,        \* history: each fetch call and what it gave
    s_result,           \* the returned (row, message)
    \* ---- update_dashboard: alignment and statistics
    a_pc,           \* "fetched", then "aligned", then "stats" (or "no_data")
    df_kospi,       \* fetched KOSPI samples, in the order received
    df_kosdaq,      \* fetched KOSDAQ samples, in the order received
    merged,         \* the merged frame: rows (time_hm, KOSPI, KOSDAQ)
    kospi_nums,     \* [clean_value(v) for v in merged['KOSPI']]
    kosdaq_nums,    \* [clean_value(v) for v in merged['KOSDAQ']]
    k_extrema,      \* (k_max_info, k_min_info)
    q_extrema,      \* (q_max_info, q_min_info)
    k_bounds,       \* (k_min_bound, k_max_bound)
    q_bounds,       \* (q_min_bound, q_max_bound)
    \* ---- session countdown: get_market_countdown_context and the script
    c_pc,           \* "load" before the page is built, "rendered", "ticking"
    now_epoch,      \* the server clock at page load (datetime.now)
    holiday_dates,  \* get_kr_holiday_dates(years), also config.holidayDates
    py_ctx,         \* countdown_context of get_market_countdown_context
    js_now,         \* the browser clock read by the last tick (Date.now())
    js_ctx,         \* ctx of the last tick
    display,        \* statusEl, labelEl, timeEl text contents
    \* ---- extract_rows_from_krx_payload
    x_pc,           \* "input" before the call, "extracted" after it
    payload,        \* the argument
    x_rows,         \* the returned list
    \* ---- get_valid_data
    v_pc,           \* "loop" inside the for loop, "done" after the return
    start_date,     \* the argument (days since 1970-01-01)
    current_date,   \* local current_date
    v_iter,         \* iterations of range(10) begun so far
    v_examined,     \* history: current_date of every iteration, in order
    v_fetched,      \* history: every date fetched, with both frames
    v_result        \* (df_kospi, df_kosdaq, date_str) as returned

fetchVars == <<f_pc, profile_idx, timeout_idx, last_err, last_profile,
               response, attempt_log, request_log, last_request, curl_output,
               f_result>>

resolveVars == <<r_pc, rows, current_yyyymm, candidates, target_month,
                 selected, changed>>

searchVars == <<s_pc, bas_dd_candidates, cand_idx, s_current_yyyymm,
                debug_logs, last_error, fetch_calls, s_result>>

alignVars == <<a_pc, df_kospi, df_kosdaq, merged, kospi_nums, kosdaq_nums,
               k_extrema, q_extrema, k_bounds, q_bounds>>

calVars == <<c_pc, now_epoch, holiday_dates, py_ctx, js_now, js_ctx, display>>

extractVars == <<x_pc, payload, x_rows>>

validVars == <<v_pc, start_date, current_date, v_iter, v_examined, v_fetched,
               v_result>>

vars == <<fetchVars, resolveVars, searchVars, alignVars, calVars,
          extractVars, validVars>>

\* What each component leaves alone.
notFetch == <<resolveVars, searchVars, alignVars, calVars, extractVars,
              validVars>>
notResolve == <<fetchVars, searchVars, alignVars, calVars, extractVars,
                validVars>>
notSearch == <<fetchVars, resolveVars, alignVars, calVars, extractVars,
               validVars>>
notAlign == <<fetchVars, resolveVars, searchVars, calVars, extractVars,
              validVars>>
notCal == <<fetchVars, resolveVars, searchVars, alignVars, extractVars,
            validVars>>
notExtract == <<fetchVars, resolveVars, searchVars, alignVars, calVars,
                validVars>>
notValid == <<fetchVars, resolveVars, searchVars, alignVars, calVars,
              extractVars>>

None == "None"

-----------------------------------------------------------------------------
(* Contract resolver: build_kospi_night_candidates and                     *)
(* select_latest_kospi_night_contract.                                     *)
(* A text is a sequence of characters.  ASCII characters stand for         *)
(* themselves; a Hangul syllable is written by its romanisation:           *)
(* KO SEU PI = "kospi", SEON MUL = "futures", YA GAN = "night",            *)
(* MI NI = "mini", JEONG GYU = "regular", DAK as in "kosdaq".              *)

Digits == {"0", "1", "2", "3", "4", "5", "6", "7", "8", "9"}

DigitVal(c) ==
    CASE c = "0" -> 0 [] c = "1" -> 1 [] c = "2" -> 2 [] c = "3" -> 3
      [] c = "4" -> 4 [] c = "5" -> 5 [] c = "6" -> 6 [] c = "7" -> 7
      [] c = "8" -> 8 [] c = "9" -> 9

\* Unicode code point of a character: the order str comparison uses.
CodePoint(c) ==
    CASE c = " " -> 32 [] c = "(" -> 40 [] c = ")" -> 41 [] c = "-" -> 45
      [] c \in Digits -> 48 + DigitVal(c)
      [] c = "F" -> 70
      [] c = "GAN" -> 44036 [] c = "GYU" -> 44508 [] c = "NI" -> 45768
      [] c = "DAK" -> 45797 [] c = "MUL" -> 47932 [] c = "MI" -> 48120
      [] c = "SEON" -> 49440 [] c = "SEU" -> 49828 [] c = "YA" -> 50556
      [] c = "JEONG" -> 51221 [] c = "KO" -> 53076 [] c = "PI" -> 54588

IsDigit(c) == c \in Digits

\* re.sub(r"\s+", "", s): s without its whitespace
RECURSIVE RemoveSpaces(_)
RemoveSpaces(s) ==
    IF s = <<>> THEN <<>>
    ELSE (IF Head(s) = " " THEN <<>> ELSE <<Head(s)>>) \o RemoveSpaces(Tail(s))

\* re.sub(r"\D", "", s): the digits of s
RECURSIVE KeepDigits(_)
KeepDigits(s) ==
    IF s = <<>> THEN <<>>
    ELSE (IF IsDigit(Head(s)) THEN <<Head(s)>> ELSE <<>>) \o KeepDigits(Tail(s))

\* normalize_kr_text: re.sub(r"\s+", "", str(value or "")).strip()
normalize_kr_text(value) == RemoveSpaces(value)

\* str.strip()
RECURSIVE LStrip(_)
LStrip(s) == IF s # <<>> /\ Head(s) = " " THEN LStrip(Tail(s)) ELSE s

RECURSIVE RStrip(_)
RStrip(s) ==
    IF s # <<>> /\ s[Len(s)] = " " THEN RStrip(SubSeq(s, 1, Len(s) - 1))
    ELSE s

Strip(s) == RStrip(LStrip(s))

\* The literal lit stands in s at position i.
HasAt(s, i, lit) ==
    /\ i >= 1
    /\ i + Len(lit) - 1 <= Len(s)
    /\ \A k \in 1..Len(lit) : s[i + k - 1] = lit[k]

\* needle in haystack (substring test of Python's `in`)
Contains(haystack, needle) ==
    \E i \in 1..(Len(haystack) + 1) : HasAt(haystack, i, needle)

\* \s* : the position after the run of whitespace that starts at i
RECURSIVE SkipSpaces(_, _)
SkipSpaces(s, i) ==
    IF i <= Len(s) /\ s[i] = " " THEN SkipSpaces(s, i + 1) ELSE i

\* int() of a run of digits
RECURSIVE DigitsToInt(_)
DigitsToInt(s) ==
    IF s = <<>> THEN 0
    ELSE 10 * DigitsToInt(SubSeq(s, 1, Len(s) - 1)) + DigitVal(s[Len(s)])

TxtKospi200 == <<"KO", "SEU", "PI", "2", "0", "0">>
TxtKospi200Futures == TxtKospi200 \o <<"SEON", "MUL">>
TxtNight == <<"YA", "GAN">>
TxtNightSuffix == <<"(", "YA", "GAN", ")">>

\* (0[1-9]|1[0-2])
IsMonthToken(a, b) ==
    \/ a = "0" /\ b \in (Digits \ {"0"})
    \/ a = "1" /\ b \in {"0", "1", "2"}

\* re.match(r"^kospi200\s*F\s*(20\d{2})(0[1-9]|1[0-2])\s*\(night\)$", isu_nm)
\* with isu_nm already stripped: the captured yyyymm, or 0 for no match.
match_isu_nm(isu_nm) ==
    IF ~HasAt(isu_nm, 1, TxtKospi200) THEN 0
    ELSE LET iF == SkipSpaces(isu_nm, Len(TxtKospi200) + 1) IN
    IF ~HasAt(isu_nm, iF, <<"F">>) THEN 0
    ELSE LET iY == SkipSpaces(isu_nm, iF + 1) IN
    IF ~(/\ iY + 5 <= Len(isu_nm)
         /\ HasAt(isu_nm, iY, <<"2", "0">>)
         /\ IsDigit(isu_nm[iY + 2])
         /\ IsDigit(isu_nm[iY + 3])
         /\ IsMonthToken(isu_nm[iY + 4], isu_nm[iY + 5])) THEN 0
    ELSE LET iS == SkipSpaces(isu_nm, iY + 6) IN
    IF ~(HasAt(isu_nm, iS, TxtNightSuffix)
         /\ iS + Len(TxtNightSuffix) - 1 = Len(isu_nm)) THEN 0
    ELSE DigitsToInt(SubSeq(isu_nm, iY, iY + 5))

\* The three tests of build_kospi_night_candidates on one row.
PassesProduct(row) == Contains(normalize_kr_text(row.PROD_NM), TxtKospi200Futures)
PassesSession(row) == Contains(normalize_kr_text(row.MKT_NM), TxtNight)
PassesName(row) == match_isu_nm(Strip(row.ISU_NM)) # 0

\* build_kospi_night_candidates without the session test (mutant).
RECURSIVE build_kospi_night_candidates_NoSession(_)
build_kospi_night_candidates_NoSession(rs) ==
    IF rs = <<>> THEN <<>>
    ELSE LET row == Head(rs)
             rest == build_kospi_night_candidates_NoSession(Tail(rs))
         IN IF ~PassesProduct(row) THEN rest
            ELSE IF ~PassesName(row) THEN rest
            ELSE << <<match_isu_nm(Strip(row.ISU_NM)), row>> >> \o rest

\* build_kospi_night_candidates: the (yyyymm, row) pairs of the rows that
\* pass, in row order; a row that fails a test is skipped (`continue`).
RECURSIVE build_kospi_night_candidates(_)
build_kospi_night_candidates(rs) ==
    IF rs = <<>> THEN <<>>
    ELSE LET row == Head(rs)
             rest == build_kospi_night_candidates(Tail(rs))
         IN IF ~PassesProduct(row) THEN rest
            ELSE IF ~PassesSession(row) THEN rest
            ELSE IF ~PassesName(row) THEN rest
            ELSE << <<match_isu_nm(Strip(row.ISU_NM)), row>> >> \o rest

\* yyyymm_to_serial
yyyymm_to_serial(yyyymm) == (yyyymm \div 100) * 12 + (yyyymm % 100)

Abs(x) == IF x < 0 THEN -x ELSE x

\* Python tuple comparison a < b for tuples of integers of equal length
RECURSIVE TupleLess(_, _)
TupleLess(a, b) ==
    IF a = <<>> THEN FALSE
    ELSE IF Head(a) # Head(b) THEN Head(a) < Head(b)
    ELSE TupleLess(Tail(a), Tail(b))

\* The key of the min() call with the tie-break reversed (mutant).
month_key_PreferPast(month, current_serial) ==
    << Abs(yyyymm_to_serial(month) - current_serial),
       IF yyyymm_to_serial(month) >= current_serial THEN 1 ELSE 0,
       yyyymm_to_serial(month) >>

\* key=lambda month: (abs(serial - current), 0 if serial >= current else 1,
\*                    serial)
month_key(month, current_serial) ==
    << Abs(yyyymm_to_serial(month) - current_serial),
       IF yyyymm_to_serial(month) >= current_serial THEN 0 ELSE 1,
       yyyymm_to_serial(month) >>

\* sorted({...}) of a set of integers
RECURSIVE SortedSeq(_)
SortedSeq(S) ==
    IF S = {} THEN <<>>
    ELSE LET m == CHOOSE x \in S : \A y \in S : x <= y
         IN <<m>> \o SortedSeq(S \ {m})

\* min(seq, key=...): the first element whose key is smallest
RECURSIVE MinByKey(_, _, _)
MinByKey(seq, best, current_serial) ==
    IF seq = <<>> THEN best
    ELSE MinByKey(Tail(seq),
                  IF TupleLess(month_key(Head(seq), current_serial),
                               month_key(best, current_serial))
                  THEN Head(seq) ELSE best,
                  current_serial)

CandidateMonths(cands) == { cands[i][1] : i \in 1..Len(cands) }

\* unique_months = sorted({...}); target_month = min(unique_months, key=...)
select_target_month(cands, cur_yyyymm) ==
    LET unique_months == SortedSeq(CandidateMonths(cands))
    IN MinByKey(Tail(unique_months), Head(unique_months),
                yyyymm_to_serial(cur_yyyymm))

\* normalize_bas_dd: the first eight digits as an integer, else 0
normalize_bas_dd(value) ==
    LET digits == KeepDigits(value)
    IN IF Len(digits) >= 8 THEN DigitsToInt(SubSeq(digits, 1, 8)) ELSE 0

\* Python str comparison a < b (by code point, a proper prefix is smaller)
RECURSIVE StrLess(_, _)
StrLess(a, b) ==
    IF b = <<>> THEN FALSE
    ELSE IF a = <<>> THEN TRUE
    ELSE IF Head(a) # Head(b) THEN CodePoint(Head(a)) < CodePoint(Head(b))
    ELSE StrLess(Tail(a), Tail(b))

\* The sort key (normalize_bas_dd(BAS_DD), str(ISU_NM)) of a ignores the date
\* (mutant): rows are ordered by name alone.
RowKeyLess_NameOnly(a, b) == StrLess(a.ISU_NM, b.ISU_NM)

\* key(a) < key(b) for key = (normalize_bas_dd(BAS_DD), str(ISU_NM))
RowKeyLess(a, b) ==
    LET da == normalize_bas_dd(a.BAS_DD)
        db == normalize_bas_dd(b.BAS_DD)
    IN IF da # db THEN da < db ELSE StrLess(a.ISU_NM, b.ISU_NM)

\* Insert x into a list sorted in descending key order, after the elements
\* whose key is not smaller (list.sort(reverse=True) is stable).
RECURSIVE InsertDesc(_, _)
InsertDesc(sorted, x) ==
    IF sorted = <<>> THEN <<x>>
    ELSE IF RowKeyLess(Head(sorted), x) THEN <<x>> \o sorted
    ELSE <<Head(sorted)>> \o InsertDesc(Tail(sorted), x)

RECURSIVE SortDesc(_, _)
SortDesc(todo, done) ==
    IF todo = <<>> THEN done
    ELSE SortDesc(Tail(todo), InsertDesc(done, Head(todo)))

\* same_month_rows = [row for month, row in candidates if month == target]
RECURSIVE same_month_rows(_, _)
same_month_rows(cands, month) ==
    IF cands = <<>> THEN <<>>
    ELSE (IF Head(cands)[1] = month THEN <<Head(cands)[2]>> ELSE <<>>)
         \o same_month_rows(Tail(cands), month)

\* select_latest_kospi_night_contract: <<>> for None, else <<row>>
select_latest_kospi_night_contract(rs, cur_yyyymm) ==
    LET cands == build_kospi_night_candidates(rs) IN
    IF cands = <<>> THEN <<>>
    ELSE LET target == select_target_month(cands, cur_yyyymm)
             sorted == SortDesc(same_month_rows(cands, target), <<>>)
         IN IF sorted # <<>> THEN <<sorted[1]>> ELSE <<>>

\* An instant is <<day, ms>>: days since 1970-01-01 UTC and milliseconds
\* of that day.
NoCtx == [state |-> "none", label |-> "none", target |-> <<0, 0>>]

NoDisplay == [status |-> "none", label |-> "none", time |-> <<0, 0, 0>>]

\* No payload is being unpacked.
IdleExtract ==
    /\ x_pc = "idle"
    /\ payload = [kind |-> "other", elems |-> <<>>, entries |-> <<>>]
    /\ x_rows = <<>>

\* No look-back for index data is running.
IdleValid ==
    /\ v_pc = "idle"
    /\ start_date = 0
    /\ current_date = 0
    /\ v_iter = 0
    /\ v_examined = <<>>
    /\ v_fetched = <<>>
    /\ v_result = [df_kospi |-> <<>>, df_kosdaq |-> <<>>, date_str |-> <<>>]

\* No page is being served.
IdleCal ==
    /\ c_pc = "idle"
    /\ now_epoch = <<0, 0>>
    /\ holiday_dates = {}
    /\ py_ctx = NoCtx
    /\ js_now = <<0, 0>>
    /\ js_ctx = NoCtx
    /\ display = NoDisplay

\* The dashboard is not being updated.
IdleAlign ==
    /\ a_pc = "idle"
    /\ df_kospi = <<>>
    /\ df_kosdaq = <<>>
    /\ merged = <<>>
    /\ kospi_nums = <<>>
    /\ kosdaq_nums = <<>>
    /\ k_extrema = <<>>
    /\ q_extrema = <<>>
    /\ k_bounds = <<>>
    /\ q_bounds = <<>>

\* The multi-date search is not running.
IdleSearch ==
    /\ s_pc = "idle"
    /\ bas_dd_candidates = <<>>
    /\ cand_idx = 1
    /\ s_current_yyyymm = 0
    /\ debug_logs = <<>>
    /\ last_error = None
    /\ fetch_calls = <<>>
    /\ s_result = [row |-> <<>>, message |-> <<>>]

\* Texts that occur in the fields of a provider row.
TxtMini == <<"MI", "NI">>
TxtRegular == <<"JEONG", "GYU">>
TxtKosdaq150Futures == <<"KO", "SEU", "DAK", "1", "5", "0", " ", "SEON", "MUL">>

\* "kospi200 F <digits> (night)", spaced or compact
IsuSpaced(month) == TxtKospi200 \o <<" ", "F", " ">> \o month \o <<" ">> \o TxtNightSuffix
IsuCompact(month) == TxtKospi200 \o <<"F">> \o month \o TxtNightSuffix

Row(prod, mkt, isu, bas) ==
    [PROD_NM |-> prod, MKT_NM |-> mkt, ISU_NM |-> isu, BAS_DD |-> bas]

Bas0105 == <<"2", "0", "2", "6", "0", "1", "0", "5">>
Bas0106Dashed == <<"2", "0", "2", "6", "-", "0", "1", "-", "0", "6">>
Bas0107 == <<"2", "0", "2", "6", "0", "1", "0", "7">>
BasShort == <<"2", "6", "0", "1", "0", "8">>

\* Rows a payload can hold: night-session KOSPI200 futures of several
\* months, and rows that fail exactly one of the tests.
SampleRows ==
    { Row(TxtKospi200 \o <<" ">> \o <<"SEON", "MUL">>, TxtNight,
          IsuSpaced(<<"2", "0", "2", "6", "0", "2">>), Bas0105),
      Row(TxtKospi200Futures, TxtNight,
          IsuCompact(<<"2", "0", "2", "6", "0", "2">>), Bas0105),
      Row(TxtKospi200Futures, TxtNight,
          IsuSpaced(<<"2", "0", "2", "5", "1", "2">>), Bas0106Dashed),
      Row(TxtKospi200Futures, TxtNight \o <<" ">>,
          <<" ">> \o IsuSpaced(<<"2", "0", "2", "6", "0", "6">>), Bas0105),
      Row(TxtMini \o TxtKospi200Futures, TxtNight,
          TxtMini \o IsuSpaced(<<"2", "0", "2", "6", "0", "2">>), Bas0107),
      Row(TxtKospi200Futures, TxtRegular,
          IsuSpaced(<<"2", "0", "2", "6", "0", "2">>), Bas0107),
      Row(TxtKosdaq150Futures, TxtNight,
          IsuSpaced(<<"2", "0", "2", "6", "0", "2">>), Bas0107),
      Row(TxtKospi200Futures, TxtNight,
          IsuSpaced(<<"2", "6", "0", "2">>), Bas0107) }

\* BAS_DD values a changed row can get.
SampleBasDd == {Bas0107, BasShort}

\* Values of get_current_yyyymm_kst().
SampleCurrentMonths == {202512, 202601, 202604}

\* Longest row list of the model.
MaxRows == 3

RowLists == UNION { [1..n -> SampleRows] : n \in 0..MaxRows }

InitResolve ==
    /\ r_pc = "input"
    /\ rows \in RowLists
    /\ current_yyyymm \in SampleCurrentMonths
    /\ candidates = <<>>
    /\ target_month = 0
    /\ selected = <<>>
    /\ changed = 0

\* One call of select_latest_kospi_night_contract(rows).
Resolve ==
    /\ UNCHANGED notResolve
    /\ r_pc = "input"
    /\ r_pc' = "resolved"
    /\ candidates' = build_kospi_night_candidates(rows)
    /\ target_month' = IF candidates' = <<>> THEN 0
                       ELSE select_target_month(candidates', current_yyyymm)
    /\ selected' = select_latest_kospi_night_contract(rows, current_yyyymm)
    /\ UNCHANGED <<rows, current_yyyymm, changed>>

\* The provider's data changes in the BAS_DD of one row only; the next call
\* resolves the changed list.
ChangeAsOf ==
    /\ UNCHANGED notResolve
    /\ r_pc = "resolved"
    /\ changed = 0
    /\ \E i \in 1..Len(rows), d \in SampleBasDd :
         /\ rows[i].BAS_DD # d
         /\ rows' = [rows EXCEPT ![i].BAS_DD = d]
         /\ changed' = i
    /\ r_pc' = "input"
    /\ UNCHANGED <<current_yyyymm, candidates, target_month, selected>>

NextResolve ==
    \/ Resolve
    \/ ChangeAsOf

\* The fetch is not running.
IdleFetch ==
    /\ f_pc = "idle"
    /\ profile_idx = 1
    /\ timeout_idx = 1
    /\ last_err = None
    /\ last_profile = "-"
    /\ response = None
    /\ attempt_log = <<>>
    /\ request_log = <<>>
    /\ last_request = None
    /\ curl_output = None
    /\ f_result = [kind |-> "none"]

\* The state at a call of select_latest_kospi_night_contract.
StartResolve ==
    InitResolve /\ IdleFetch /\ IdleSearch /\ IdleAlign /\ IdleCal
    /\ IdleExtract /\ IdleValid

SpecResolve == StartResolve /\ [][NextResolve]_vars

-----------------------------------------------------------------------------
(* fetch_krx_futures_by_date                                               *)

\* header_profiles: name and warmup flag of each request profile, in order.
header_profiles ==
    << [name |-> "minimal",  warmup |-> FALSE],
       [name |-> "navigate", warmup |-> FALSE],
       [name |-> "session",  warmup |-> TRUE] >>

\* for timeout_sec in (10, 20)
timeouts == <<10, 20>>

\* Responses the provider can give to one GET: status, Location header,
\* and whether the body parses as JSON (and how many rows it yields).
Statuses == {200, 302, 403}
Locations == {"", "http://other/path", "/relative"}
Bodies == {"json_rows", "json_empty", "not_json"}

Responses ==
    { [status |-> s, location |-> l, body |-> b] :
        s \in Statuses, l \in Locations, b \in Bodies }

\* requests: Response.is_redirect / is_permanent_redirect need a Location
\* header and a redirect status.
is_redirect(r) == r.status = 302 /\ r.location # ""

\* Rows extracted from a parsed payload (abstracted to the row count class).
RowsOf(body) == IF body = "json_rows" THEN <<"row">> ELSE <<>>

\* The (profile, timeout) pair of the running iteration.
CurProfile == header_profiles[profile_idx]
CurTimeout == timeouts[timeout_idx]
CurAttempt == <<CurProfile.name, CurTimeout>>

\* `continue` in the except clause: the position after a failed attempt.
\* Inner loop first, then outer loop; after the last pair the loops end.
AfterFailure_Abort(pi, ti) == [pc |-> "raised", pi |-> pi, ti |-> ti]

AfterFailure_SkipTimeout(pi, ti) ==
    IF pi < Len(header_profiles)
    THEN [pc |-> "loop", pi |-> pi + 1, ti |-> 1]
    ELSE [pc |-> "fallback", pi |-> pi, ti |-> ti]

AfterFailure(pi, ti) ==
    IF ti < Len(timeouts) THEN [pc |-> "loop", pi |-> pi, ti |-> ti + 1]
    ELSE IF pi < Len(header_profiles)
         THEN [pc |-> "loop", pi |-> pi + 1, ti |-> 1]
         ELSE [pc |-> "fallback", pi |-> pi, ti |-> ti]

\* The text of one error inside a message: its kind, and for an HTTP error
\* the status code and the profile that met it.
ErrorPart(e, profile) ==
    [part |-> "request_err", kind |-> e.kind, status |-> e.status,
     profile |-> profile]

\* except Exception as e: last_profile = profile["name"]; last_err = e; continue
AttemptFails(e) ==
    LET nxt == AfterFailure(profile_idx, timeout_idx) IN
    /\ last_profile' = CurProfile.name
    /\ last_err' = e
    /\ attempt_log' = Append(attempt_log, <<"fail", CurAttempt>>)
    /\ f_pc' = nxt.pc
    /\ profile_idx' = nxt.pi
    /\ timeout_idx' = nxt.ti
    /\ response' = None
    /\ f_result' = IF nxt.pc = "raised"
                   THEN [kind |-> "raise", message |-> <<ErrorPart(e, "-")>>]
                   ELSE f_result

\* url = "https://data-dbg.krx.co.kr/svc/apis/drv/fut_bydd_trd.json"
url == "https://data-dbg.krx.co.kr/svc/apis/drv/fut_bydd_trd.json"

\* One network call: appended to the history (kind and attempt), its URL and
\* redirect flag kept for the most recent call.
IssueRequest(kind, target, attempt, follow) ==
    /\ request_log' = Append(request_log, <<kind, attempt>>)
    /\ last_request' = [kind |-> kind, url |-> target, attempt |-> attempt,
                        allow_redirects |-> follow]

\* The resolver is not running.
IdleResolve ==
    /\ r_pc = "idle"
    /\ rows = <<>>
    /\ current_yyyymm = 0
    /\ candidates = <<>>
    /\ target_month = 0
    /\ selected = <<>>
    /\ changed = 0

InitFetch ==
    /\ f_pc = "loop"
    /\ profile_idx = 1
    /\ timeout_idx = 1
    /\ last_err = None
    /\ last_profile = "-"
    /\ response = None
    /\ attempt_log = <<>>
    /\ request_log = <<>>
    /\ last_request = None
    /\ curl_output = None
    /\ f_result = [kind |-> "none"]

\* try: session = requests.Session(); session.headers.update(...)
StartAttempt ==
    /\ UNCHANGED notFetch
    /\ f_pc = "loop"
    /\ attempt_log' = Append(attempt_log, <<"start", CurAttempt>>)
    /\ f_pc' = IF CurProfile.warmup THEN "warmup" ELSE "request"
    /\ UNCHANGED <<profile_idx, timeout_idx, last_err, last_profile,
                   response, request_log, last_request, curl_output, f_result>>

\* session.get("https://data-dbg.krx.co.kr/", allow_redirects=True):
\* the response is discarded; only a transport error ends the attempt.
Warmup ==
    /\ UNCHANGED <<notFetch, curl_output>>
    /\ f_pc = "warmup"
    /\ IssueRequest("warmup", "https://data-dbg.krx.co.kr/", CurAttempt, TRUE)
    /\ \/ /\ f_pc' = "request"
          /\ UNCHANGED <<profile_idx, timeout_idx, last_err, last_profile,
                         response, attempt_log, f_result>>
       \/ AttemptFails([kind |-> "transport", status |-> 0])

\* response = session.get(url, params=params, allow_redirects=False)
RealRequest ==
    /\ UNCHANGED <<notFetch, curl_output>>
    /\ f_pc = "request"
    /\ IssueRequest("real", url, CurAttempt, FALSE)
    /\ \/ \E r \in Responses :
            /\ response' = r
            /\ f_pc' = IF is_redirect(r) THEN "redirect" ELSE "check"
            /\ UNCHANGED <<profile_idx, timeout_idx, last_err, last_profile,
                           attempt_log, f_result>>
       \/ AttemptFails([kind |-> "transport", status |-> 0])

\* target = urljoin(url, redirect_url) with the scheme left as it is
ResolveTarget_KeepScheme(location) ==
    IF location = "/relative" THEN "https://data-dbg.krx.co.kr/relative"
    ELSE location

\* target = urljoin(url, redirect_url); an http scheme is replaced by https
ResolveTarget(location) ==
    IF location = "http://other/path" THEN "https://other/path"
    ELSE IF location = "/relative" THEN "https://data-dbg.krx.co.kr/relative"
    ELSE location

\* response = session.get(target, timeout=timeout_sec, allow_redirects=False)
FollowRedirect ==
    /\ UNCHANGED <<notFetch, curl_output>>
    /\ f_pc = "redirect"
    /\ IssueRequest("redirect", ResolveTarget(response.location),
                    CurAttempt, FALSE)
    /\ \/ \E r \in Responses :
            /\ response' = r
            /\ f_pc' = "check"
            /\ UNCHANGED <<profile_idx, timeout_idx, last_err, last_profile,
                           attempt_log, f_result>>
       \/ AttemptFails([kind |-> "transport", status |-> 0])

\* Response.raise_for_status raises for 400 <= status < 600 only.
raises_for_status(r) == r.status >= 400 /\ r.status < 600

\* response.raise_for_status(); payload = response.json();
\* return extract_rows_from_krx_payload(payload)
CheckResponse ==
    /\ UNCHANGED notFetch
    /\ f_pc = "check"
    /\ UNCHANGED <<request_log, last_request, curl_output>>
    /\ IF raises_for_status(response)
       THEN AttemptFails([kind |-> "http", status |-> response.status])
       ELSE IF response.body = "not_json"
       THEN AttemptFails([kind |-> "json", status |-> 0])
       ELSE /\ f_pc' = "returned"
            /\ f_result' = [kind |-> "return", rows |-> RowsOf(response.body)]
            /\ attempt_log' = Append(attempt_log, <<"ok", CurAttempt>>)
            /\ UNCHANGED <<profile_idx, timeout_idx, last_err, last_profile,
                           response>>

\* request_err: an HTTPError is rewrapped with status and profile, any other
\* error is kept as it is.  The text is a sequence of parts.
request_err ==
    IF last_err.kind = "http"
    THEN <<ErrorPart(last_err, last_profile)>>
    ELSE <<ErrorPart(last_err, "-")>>

\* Outcomes of the curl subprocess: non-zero exit, output that is not JSON,
\* JSON with rows, JSON without rows.
CurlOutcomes == {"exit_nonzero", "not_json", "json_rows", "json_empty"}

\* The curl fallback and the final raise.
Fallback ==
    /\ UNCHANGED notFetch
    /\ f_pc = "fallback"
    /\ IssueRequest("curl", url, <<"curl", 20>>, FALSE)
    /\ \E out \in CurlOutcomes :
         /\ curl_output' = out
         /\ IF out \in {"exit_nonzero", "not_json"}
            THEN /\ f_pc' = "raised"
                 /\ f_result' = [kind |-> "raise",
                                 message |-> request_err \o
                                     <<[part |-> "curl_fallback_error",
                                        kind |-> out, status |-> 0,
                                        profile |-> "-"]>>]
            ELSE IF RowsOf(out) # <<>>
            THEN /\ f_pc' = "returned"
                 /\ f_result' = [kind |-> "return", rows |-> RowsOf(out)]
            ELSE /\ f_pc' = "raised"
                 /\ f_result' = [kind |-> "raise", message |-> request_err]
    /\ UNCHANGED <<profile_idx, timeout_idx, last_err, last_profile,
                   response, attempt_log>>

NextFetch ==
    \/ StartAttempt
    \/ Warmup
    \/ RealRequest
    \/ FollowRedirect
    \/ CheckResponse
    \/ Fallback

\* The state at the call of fetch_krx_futures_by_date.
StartFetch ==
    InitFetch /\ IdleResolve /\ IdleSearch /\ IdleAlign /\ IdleCal
    /\ IdleExtract /\ IdleValid

SpecFetch == StartFetch /\ [][NextFetch]_vars

-----------------------------------------------------------------------------
(* Multi-date search: _get_latest_kospi_night_futures_cached               *)

\* Longest candidate list of the model (iter_basdd_candidates_kst gives 11).
MaxCandidates == 4

\* iter_basdd_candidates_kst: tomorrow first, then one day back per entry.
iter_basdd_candidates_kst(n) == [offset \in 1..n |-> 20260107 - (offset - 1)]

RowFeb ==
    Row(TxtKospi200Futures, TxtNight,
        IsuSpaced(<<"2", "0", "2", "6", "0", "2">>), Bas0105)
RowDec ==
    Row(TxtKospi200Futures, TxtNight,
        IsuSpaced(<<"2", "0", "2", "5", "1", "2">>), Bas0106Dashed)
RowRegularSession ==
    Row(TxtKospi200Futures, TxtRegular,
        IsuSpaced(<<"2", "0", "2", "6", "0", "2">>), Bas0107)

\* What one call of fetch_krx_futures_by_date can give the search: it
\* raises with a message, or returns a row list (empty, without a night
\* contract, or with some).
SearchFetchOutcomes ==
    { [kind |-> "raise", message |-> m, rows |-> <<>>] :
        m \in {"HTTP 403", "timeout"} }
    \cup
    { [kind |-> "return", message |-> "", rows |-> rl] :
        rl \in { <<>>, <<RowRegularSession>>, <<RowFeb>>, <<RowDec, RowFeb>> } }

InitSearch ==
    /\ s_pc = "loop"
    /\ \E n \in 1..MaxCandidates :
         bas_dd_candidates = iter_basdd_candidates_kst(n)
    /\ cand_idx = 1
    /\ s_current_yyyymm \in SampleCurrentMonths
    /\ debug_logs = <<>>
    /\ last_error = None
    /\ fetch_calls = <<>>
    /\ s_result = [row |-> <<>>, message |-> <<>>]

\* The no-data message whatever last_error holds (mutant).
FailureMessage_NoDataOnly(err) ==
    <<"no night KOSPI200 futures data in the last 10 days">>

\* if last_error: ... else: ...  (the two failure messages)
FailureMessage(err) ==
    IF err # None /\ err # ""
    THEN <<"KRX API call failed", err>>
    ELSE <<"no night KOSPI200 futures data in the last 10 days">>

\* The except clause ends the search at once (mutant).
AfterFetchError_Abort(idx) == [pc |-> "done", idx |-> idx]

\* except Exception as e: ...; continue
AfterFetchError(idx) == [pc |-> "loop", idx |-> idx + 1]

\* One iteration of `for bas_dd in bas_dd_candidates`.
TryCandidate ==
    /\ UNCHANGED notSearch
    /\ s_pc = "loop"
    /\ cand_idx <= Len(bas_dd_candidates)
    /\ \E out \in SearchFetchOutcomes :
         LET bas_dd == bas_dd_candidates[cand_idx] IN
         /\ fetch_calls' = Append(fetch_calls, [bas_dd |-> bas_dd, outcome |-> out])
         /\ IF out.kind = "raise"
            THEN LET nxt == AfterFetchError(cand_idx) IN
                 /\ last_error' = out.message
                 /\ debug_logs' = Append(debug_logs,
                        [request_bas_dd |-> bas_dd, status |-> "error",
                         rows |-> 0, filtered |-> 0,
                         message |-> out.message, target_month |-> 0])
                 /\ s_pc' = nxt.pc
                 /\ cand_idx' = nxt.idx
                 /\ s_result' = IF nxt.pc = "done"
                                THEN [row |-> <<>>,
                                      message |-> FailureMessage(out.message)]
                                ELSE s_result
            ELSE LET cands == build_kospi_night_candidates(out.rows)
                     sel == select_latest_kospi_night_contract(out.rows,
                                                               s_current_yyyymm)
                 IN /\ debug_logs' = Append(debug_logs,
                        [request_bas_dd |-> bas_dd, status |-> "ok",
                         rows |-> Len(out.rows), filtered |-> Len(cands),
                         message |-> IF sel # <<>> THEN "selected"
                                     ELSE "no-match",
                         target_month |->
                             IF cands = <<>> THEN 0
                             ELSE select_target_month(cands, s_current_yyyymm)])
                    /\ UNCHANGED last_error
                    /\ IF sel # <<>>
                       THEN /\ s_pc' = "done"
                            /\ s_result' = [row |-> sel, message |-> <<>>]
                            /\ UNCHANGED cand_idx
                       ELSE /\ cand_idx' = cand_idx + 1
                            /\ UNCHANGED <<s_pc, s_result>>
    /\ UNCHANGED <<bas_dd_candidates, s_current_yyyymm>>

\* The loop is over: return None with one of the two messages.
ReturnFailure ==
    /\ UNCHANGED notSearch
    /\ s_pc = "loop"
    /\ cand_idx > Len(bas_dd_candidates)
    /\ s_pc' = "done"
    /\ s_result' = [row |-> <<>>, message |-> FailureMessage(last_error)]
    /\ UNCHANGED <<bas_dd_candidates, cand_idx, s_current_yyyymm, debug_logs,
                   last_error, fetch_calls>>

NextSearch ==
    \/ TryCandidate
    \/ ReturnFailure

\* The state at a call of _get_latest_kospi_night_futures_cached.
StartSearch ==
    InitSearch /\ IdleFetch /\ IdleResolve /\ IdleAlign /\ IdleCal
    /\ IdleExtract /\ IdleValid

SpecSearch == StartSearch /\ [][NextSearch]_vars

-----------------------------------------------------------------------------
(* Timeline alignment and statistics: update_dashboard, process_df,        *)
(* generate_full_timeline, clean_value, calculate_y_axis_bounds,           *)
(* get_extrema_info.                                                       *)
(* A minute label "HH:MM" is the pair <<HH, MM>>.  A thistime is the       *)
(* integer HHMMSS of its last six characters.  A cell of a frame is <<>>   *)
(* (None), NaN or <<v>>; v counts hundredths of an index point.            *)

\* generate_full_timeline: every minute from 09:00 to 15:30 inclusive,
\* with minutes counted from midnight.
TimelineFrom(start, end) ==
    [i \in 1..(end - start + 1) |->
        <<(start + i - 1) \div 60, (start + i - 1) % 60>>]

generate_full_timeline == TimelineFrom(9 * 60 + 0, 15 * 60 + 30)

\* df['time_hm'] = df['thistime'].apply(lambda x: f"{x[8:10]}:{x[10:12]}")
time_hm(thistime) == <<thistime \div 10000, (thistime \div 100) % 100>>

\* Samples the index endpoint can return: at the open, two seconds of the
\* minute 09:05, at the last slot 15:30 and after it; a value can be
\* missing (null), negative, or equal to the value of another minute.
S(t, v) == [thistime |-> t, nowVal |-> v]

Samples ==
    { S(90000, <<10000>>), S(90000, <<-10000>>), S(90000, <<>>),
      S(90501, <<10150>>), S(90501, <<10000>>),
      S(90530, <<10150>>), S(90530, <<>>),
      S(153000, <<10150>>), S(153100, <<10150>>) }

\* Most samples of the KOSPI series in the model.
MaxSamples == 2

KospiFrames == UNION { [1..n -> Samples] : n \in 0..MaxSamples }

\* KOSDAQ series of the model: empty, one sample, two samples in one minute.
KosdaqFrames ==
    { <<>>,
      << [thistime |-> 90501, nowVal |-> <<80000>>] >>,
      << [thistime |-> 90530, nowVal |-> <<80100>>],
         [thistime |-> 90501, nowVal |-> <<80000>>] >> }

\* The orders df.sort_values('thistime') can give: ascending in thistime,
\* rows with equal thistime in either order (the default sort is not stable).
SortedOrders(df) ==
    { p \in [1..Len(df) -> 1..Len(df)] :
        /\ \A i, j \in 1..Len(df) : i # j => p[i] # p[j]
        /\ \A i, j \in 1..Len(df) :
             i < j => df[p[i]].thistime <= df[p[j]].thistime }

\* process_df: the (time_hm, nowVal) rows of df in the order p
process_df(df, p) ==
    [i \in 1..Len(df) |-> [time_hm |-> time_hm(df[p[i]].thistime),
                           val |-> df[p[i]].nowVal]]

\* The float NaN that a left merge puts where no right row matches.
NaN == <<0, 0>>

\* The rows of right whose key is time_hm, in the order of right.
RECURSIVE MatchingRows(_, _)
MatchingRows(right, key) ==
    IF right = <<>> THEN <<>>
    ELSE (IF Head(right).time_hm = key THEN <<Head(right).val>> ELSE <<>>)
         \o MatchingRows(Tail(right), key)

\* pd.merge(timeline_df, df_p_kospi, on='time_hm', how='left'): for each
\* left row in order one row per matching right row, or one row with NaN.
MergeKospi(timeline, right) ==
    LET RowsFor(k) ==
            LET hits == MatchingRows(right, timeline[k]) IN
            IF hits = <<>>
            THEN << [time_hm |-> timeline[k], KOSPI |-> NaN] >>
            ELSE [i \in 1..Len(hits) |->
                    [time_hm |-> timeline[k], KOSPI |-> hits[i]]]
        RECURSIVE Span(_, _)
        Span(lo, hi) ==
            IF lo > hi THEN <<>>
            ELSE IF lo = hi THEN RowsFor(lo)
            ELSE Span(lo, (lo + hi) \div 2) \o Span((lo + hi) \div 2 + 1, hi)
    IN Span(1, Len(timeline))

\* pd.merge(merged, df_p_kosdaq, on='time_hm', how='left')
MergeKosdaq(left, right) ==
    LET RowsFor(k) ==
            LET hits == MatchingRows(right, left[k].time_hm) IN
            IF hits = <<>>
            THEN << [time_hm |-> left[k].time_hm,
                     KOSPI |-> left[k].KOSPI, KOSDAQ |-> NaN] >>
            ELSE [i \in 1..Len(hits) |->
                    [time_hm |-> left[k].time_hm,
                     KOSPI |-> left[k].KOSPI, KOSDAQ |-> hits[i]]]
        RECURSIVE Span(_, _)
        Span(lo, hi) ==
            IF lo > hi THEN <<>>
            ELSE IF lo = hi THEN RowsFor(lo)
            ELSE Span(lo, (lo + hi) \div 2) \o Span((lo + hi) \div 2 + 1, hi)
    IN Span(1, Len(left))

\* clean_value: None for None and for NaN, else the float
clean_value(val) ==
    IF val = <<>> THEN <<>>
    ELSE IF val = NaN THEN <<>>
    ELSE val

InitAlign ==
    /\ a_pc = "fetched"
    /\ df_kospi \in KospiFrames
    /\ df_kosdaq \in KosdaqFrames
    /\ merged = <<>>
    /\ kospi_nums = <<>>
    /\ kosdaq_nums = <<>>
    /\ k_extrema = <<>>
    /\ q_extrema = <<>>
    /\ k_bounds = <<>>
    /\ q_bounds = <<>>

\* if df_kospi.empty and df_kosdaq.empty: st.info(...); return
NoData ==
    /\ UNCHANGED notAlign
    /\ a_pc = "fetched"
    /\ df_kospi = <<>> /\ df_kosdaq = <<>>
    /\ a_pc' = "no_data"
    /\ UNCHANGED <<df_kospi, df_kosdaq, merged, kospi_nums, kosdaq_nums,
                   k_extrema, q_extrema, k_bounds, q_bounds>>

\* full_timeline ... kosdaq_nums: process both frames, merge them onto the
\* timeline, read the two columns.
AlignSeries ==
    /\ UNCHANGED notAlign
    /\ a_pc = "fetched"
    /\ ~(df_kospi = <<>> /\ df_kosdaq = <<>>)
    /\ \E pk \in SortedOrders(df_kospi), pq \in SortedOrders(df_kosdaq) :
       \E df_p_kospi \in {process_df(df_kospi, pk)},
          df_p_kosdaq \in {process_df(df_kosdaq, pq)} :
       \E m1 \in {MergeKospi(generate_full_timeline, df_p_kospi)} :
         /\ merged' = MergeKosdaq(m1, df_p_kosdaq)
         /\ kospi_nums' = [i \in 1..Len(merged') |-> clean_value(merged'[i].KOSPI)]
         /\ kosdaq_nums' = [i \in 1..Len(merged') |-> clean_value(merged'[i].KOSDAQ)]
    /\ a_pc' = "aligned"
    /\ UNCHANGED <<df_kospi, df_kosdaq, k_extrema, q_extrema, k_bounds,
                   q_bounds>>

Min2(a, b) == IF a <= b THEN a ELSE b
Max2(a, b) == IF a >= b THEN a ELSE b

\* valid_data = [(t, v) for t, v in zip(timeline, values) if v is not None]
valid_data(timeline, values) ==
    LET n == Min2(Len(timeline), Len(values))
        zipped == [i \in 1..n |-> <<timeline[i], values[i]>>]
        HasValue(tv) == tv[2] # <<>>
        kept == SelectSeq(zipped, HasValue)
    IN [i \in 1..Len(kept) |-> <<kept[i][1], kept[i][2][1]>>]

\* max(valid_data, key=...) keeping the last of equal values (mutant)
RECURSIVE max_item_LastWins(_, _)
max_item_LastWins(items, best) ==
    IF items = <<>> THEN best
    ELSE max_item_LastWins(Tail(items),
                           IF Head(items)[2] >= best[2] THEN Head(items) ELSE best)

\* max(valid_data, key=lambda x: x[1]): the first item of greatest value
RECURSIVE max_item(_, _)
max_item(items, best) ==
    IF items = <<>> THEN best
    ELSE max_item(Tail(items),
                  IF Head(items)[2] > best[2] THEN Head(items) ELSE best)

\* min(valid_data, key=lambda x: x[1]): the first item of least value
RECURSIVE min_item(_, _)
min_item(items, best) ==
    IF items = <<>> THEN best
    ELSE min_item(Tail(items),
                  IF Head(items)[2] < best[2] THEN Head(items) ELSE best)

\* get_extrema_info: <<>> for (None, None), else <<max_item, min_item>>
get_extrema_info(timeline, values) ==
    LET data == valid_data(timeline, values) IN
    IF data = <<>> THEN <<>>
    ELSE << max_item(Tail(data), Head(data)), min_item(Tail(data), Head(data)) >>

\* for v in values: if v is not None: reference_val = v; break
\* (<<v>> for the first value that is not None, <<>> when there is none)
reference_val(values) ==
    LET present == { i \in 1..Len(values) : values[i] # <<>> } IN
    IF present = {} THEN <<>>
    ELSE values[CHOOSE i \in present : \A j \in present : i <= j]

\* valid_values = [v for v in values if v is not None]
valid_values(values) ==
    LET HasValue(v) == v # <<>>
        kept == SelectSeq(values, HasValue)
    IN [i \in 1..Len(kept) |-> kept[i][1]]

RECURSIVE MaxOf(_)
MaxOf(vs) == IF Len(vs) = 1 THEN vs[1] ELSE Max2(vs[1], MaxOf(Tail(vs)))

RECURSIVE MinOf(_)
MinOf(vs) == IF Len(vs) = 1 THEN vs[1] ELSE Min2(vs[1], MinOf(Tail(vs)))

\* calculate_y_axis_bounds: <<>> for (None, None), else <<low, high>>.
\* The factors 0.005 and 1.15 are 5/1000 and 1150/1000: low and high count
\* thousandths of the unit of the values.
calculate_y_axis_bounds(values) ==
    LET ref == reference_val(values) IN
    IF ref = <<>> THEN <<>>
    ELSE LET reference == ref[1]
             vs == valid_values(values)
             diff_up == MaxOf(vs) - reference
             diff_down == reference - MinOf(vs)
             margin == Max2(diff_up, diff_down)
             margin_1000 == IF margin = 0 THEN reference * 5
                            ELSE margin * 1150
         IN << reference * 1000 - margin_1000, reference * 1000 + margin_1000 >>

\* k_max_info ... q_max_bound
ComputeStats ==
    /\ UNCHANGED notAlign
    /\ a_pc = "aligned"
    /\ k_extrema' = get_extrema_info(generate_full_timeline, kospi_nums)
    /\ q_extrema' = get_extrema_info(generate_full_timeline, kosdaq_nums)
    /\ k_bounds' = calculate_y_axis_bounds(kospi_nums)
    /\ q_bounds' = calculate_y_axis_bounds(kosdaq_nums)
    /\ a_pc' = "stats"
    /\ UNCHANGED <<df_kospi, df_kosdaq, merged, kospi_nums, kosdaq_nums>>

NextAlign ==
    \/ NoData
    \/ AlignSeries
    \/ ComputeStats

\* The state of update_dashboard after get_valid_data.
StartAlign ==
    InitAlign /\ IdleFetch /\ IdleResolve /\ IdleSearch /\ IdleCal
    /\ IdleExtract /\ IdleValid

SpecAlign == StartAlign /\ [][NextAlign]_vars

-----------------------------------------------------------------------------
(* Session countdown: is_krx_trading_day, get_next_krx_open_datetime,      *)
(* get_market_countdown_context, and the script of render_market_countdown *)
(* (toKstParts, ymd, isTradingDay, epochFromKst, addKstDays,               *)
(* findNextOpenEpoch, computeContext, formatHms, render, tick).            *)
(* An instant (epoch milliseconds) is <<day, ms>>: whole days since        *)
(* 1970-01-01 UTC and the milliseconds of that day.  A Python date is its  *)
(* day number since 1970-01-01, an aware KST datetime is <<date, ms>> with *)
(* the milliseconds of the KST day.  A text is the sequence of its         *)
(* characters.                                                             *)

DAY_MS == 24 * 60 * 60 * 1000
KST_OFFSET_MS == 9 * 60 * 60 * 1000

\* KRX_OPEN_TIME = time(9, 0, 0), KRX_CLOSE_TIME = time(15, 30, 0), as the
\* milliseconds of the day
KRX_OPEN_TIME == ((9 * 60 + 0) * 60 + 0) * 1000
KRX_CLOSE_TIME == ((15 * 60 + 30) * 60 + 0) * 1000

\* range(370) / i < 370: the days the forward walk looks at
WalkLimit == 370

\* epochMs + ms, for -DAY_MS <= ms <= DAY_MS
AddMs(inst, ms) ==
    LET total == inst[2] + ms IN
    IF total < 0 THEN <<inst[1] - 1, total + DAY_MS>>
    ELSE IF total >= DAY_MS THEN <<inst[1] + 1, total - DAY_MS>>
    ELSE <<inst[1], total>>

\* epochMs + days * DAY_MS
AddDays(inst, days) == <<inst[1] + days, inst[2]>>

\* a < b on instants, and on datetimes of one time zone
InstBefore(a, b) == a[1] < b[1] \/ (a[1] = b[1] /\ a[2] < b[2])

\* The proleptic Gregorian date of a day number, as Date and datetime.date
\* compute it.
CivilOf(z) ==
    LET zz == z + 719468
        era == zz \div 146097
        doe == zz - era * 146097
        yoe == (doe - doe \div 1460 + doe \div 36524 - doe \div 146096) \div 365
        doy == doe - (365 * yoe + yoe \div 4 - yoe \div 100)
        mp == (5 * doy + 2) \div 153
        d == doy - (153 * mp + 2) \div 5 + 1
        m == IF mp < 10 THEN mp + 3 ELSE mp - 9
    IN [year |-> yoe + era * 400 + (IF m <= 2 THEN 1 ELSE 0),
        month |-> m, day |-> d]

\* CivilOf over the days 2026-12-13 .. 2028-04-26, computed once.
CivilTable == [z \in 20800..21300 |-> CivilOf(z)]

CivilFromDays(z) == CivilTable[z]

\* The day number of a Gregorian date (Date.UTC(y, m - 1, d)).
DaysFromCivil(y, m, d) ==
    LET yy == IF m <= 2 THEN y - 1 ELSE y
        era == yy \div 400
        yoe == yy - era * 400
        doy == (153 * (IF m > 2 THEN m - 3 ELSE m + 9) + 2) \div 5 + d - 1
        doe == yoe * 365 + yoe \div 4 - yoe \div 100 + doy
    IN era * 146097 + doe - 719468

DigitChars == <<"0", "1", "2", "3", "4", "5", "6", "7", "8", "9">>

\* String(n) for n >= 0
RECURSIVE String(_)
String(n) ==
    IF n < 10 THEN <<DigitChars[n + 1]>>
    ELSE String(n \div 10) \o <<DigitChars[(n % 10) + 1]>>

\* text.padStart(width, "0"), also the zero padding of %m, %d and %Y
RECURSIVE padStart(_, _)
padStart(text, width) ==
    IF Len(text) >= width THEN text ELSE padStart(<<"0">> \o text, width)

\* date.weekday(): Monday is 0 (1970-01-01 was a Thursday)
weekday(date) == (date + 3) % 7

\* date.strftime("%Y-%m-%d")
strftime(date) ==
    LET c == CivilFromDays(date) IN
    padStart(String(c.year), 4) \o <<"-">> \o padStart(String(c.month), 2)
        \o <<"-">> \o padStart(String(c.day), 2)

\* is_krx_trading_day(date_kst, kr_holiday_set), the set given
is_krx_trading_day(date_kst, kr_holiday_set) ==
    IF weekday(date_kst) >= 5 THEN FALSE
    ELSE strftime(date_kst) \notin kr_holiday_set

\* KST_TZ.localize(datetime.combine(date, time))
localize(date, time) == <<date, time>>

\* datetime.now(KST_TZ) when the clock reads the instant inst
now_in_kst(inst) == AddMs(inst, KST_OFFSET_MS)

\* int(dt.timestamp() * 1000) of a KST datetime
timestamp_ms(dt) == AddMs(dt, -KST_OFFSET_MS)

\* get_next_krx_open_datetime: the for loop returns at the first of the
\* WalkLimit iterations whose test passes (iteration k looks at the date k
\* days after today); after the loop the candidate date has moved
\* WalkLimit days.  FirstReturn searches the iterations lo .. hi - 1 in
\* order, by halves, and gives <<>> when none returns.
get_next_krx_open_datetime(now_kst, kr_holiday_set) ==
    LET candidate_date(k) == now_kst[1] + k
        open_dt(k) == localize(candidate_date(k), KRX_OPEN_TIME)
        returns(k) ==
            /\ is_krx_trading_day(candidate_date(k), kr_holiday_set)
            /\ InstBefore(now_kst, open_dt(k))
        RECURSIVE FirstReturn(_, _)
        FirstReturn(lo, hi) ==
            IF lo >= hi THEN <<>>
            ELSE IF hi = lo + 1 THEN (IF returns(lo) THEN <<lo>> ELSE <<>>)
            ELSE LET early == FirstReturn(lo, (lo + hi) \div 2) IN
                 IF early # <<>> THEN early
                 ELSE FirstReturn((lo + hi) \div 2, hi)
        found == FirstReturn(0, WalkLimit)
    IN IF found # <<>> THEN open_dt(found[1])
       ELSE localize(candidate_date(WalkLimit), KRX_OPEN_TIME)

\* get_market_countdown_context with the close test now_kst <= close_dt
get_market_countdown_context_ClosedEnd(now_kst) ==
    LET today == now_kst[1]
        open_dt == localize(today, KRX_OPEN_TIME)
        close_dt == localize(today, KRX_CLOSE_TIME)
    IN IF /\ is_krx_trading_day(today, holiday_dates)
          /\ ~InstBefore(now_kst, open_dt)
          /\ ~InstBefore(close_dt, now_kst)
       THEN [state |-> "open", label |-> "until_close",
             target |-> timestamp_ms(close_dt)]
       ELSE [state |-> "closed", label |-> "until_next_open",
             target |-> timestamp_ms(
                 get_next_krx_open_datetime(now_kst, holiday_dates))]

\* get_market_countdown_context: market_state, label and target_epoch_ms
\* (holiday_dates is what get_kr_holiday_dates(years) gave)
get_market_countdown_context(now_kst) ==
    LET today == now_kst[1]
        open_dt == localize(today, KRX_OPEN_TIME)
        close_dt == localize(today, KRX_CLOSE_TIME)
    IN IF /\ is_krx_trading_day(today, holiday_dates)
          /\ ~InstBefore(now_kst, open_dt)
          /\ InstBefore(now_kst, close_dt)
       THEN [state |-> "open", label |-> "until_close",
             target |-> timestamp_ms(close_dt)]
       ELSE [state |-> "closed", label |-> "until_next_open",
             target |-> timestamp_ms(
                 get_next_krx_open_datetime(now_kst, holiday_dates))]

\* toKstParts: the UTC fields of the instant moved by KST_OFFSET_MS
toKstParts(epochMs) ==
    LET d == AddMs(epochMs, KST_OFFSET_MS)
        c == CivilFromDays(d[1])
    IN [year |-> c.year, month |-> c.month, day |-> c.day,
        hour |-> d[2] \div 3600000,
        minute |-> (d[2] \div 60000) % 60,
        second |-> (d[2] \div 1000) % 60,
        weekday |-> (d[1] + 4) % 7]

\* ymd(parts)
ymd(parts) ==
    String(parts.year) \o <<"-">> \o padStart(String(parts.month), 2)
        \o <<"-">> \o padStart(String(parts.day), 2)

\* isTradingDay(parts) with holidaySet = new Set(config.holidayDates)
isTradingDay(parts) ==
    IF parts.weekday = 0 \/ parts.weekday = 6 THEN FALSE
    ELSE ymd(parts) \notin holiday_dates

\* epochFromKst: Date.UTC(y, m - 1, d, h - 9, min, sec)
epochFromKst(y, m, d, h, min, sec) ==
    AddMs(<<DaysFromCivil(y, m, d), 0>>, (((h - 9) * 60 + min) * 60 + sec) * 1000)

\* addKstDays(parts, days)
addKstDays(parts, days) ==
    LET midnightEpoch == epochFromKst(parts.year, parts.month, parts.day, 0, 0, 0)
    IN toKstParts(AddDays(midnightEpoch, days))

\* findNextOpenEpoch: the for loop returns at the first of the WalkLimit
\* iterations whose test passes; the cursor of iteration i is the KST date
\* of fromEpoch moved i days (addKstDays(cursor, 1) applied i times).
\* FirstReturn searches the iterations lo .. hi - 1 in order, by halves.
findNextOpenEpoch(fromEpoch) ==
    LET first == toKstParts(fromEpoch)
        cursor(i) == IF i = 0 THEN first ELSE addKstDays(first, i)
        openEpochOf(c) == epochFromKst(c.year, c.month, c.day, 9, 0, 0)
        returns(i) ==
            LET c == cursor(i) IN
            isTradingDay(c) /\ InstBefore(fromEpoch, openEpochOf(c))
        RECURSIVE FirstReturn(_, _)
        FirstReturn(lo, hi) ==
            IF lo >= hi THEN <<>>
            ELSE IF hi = lo + 1 THEN (IF returns(lo) THEN <<lo>> ELSE <<>>)
            ELSE LET early == FirstReturn(lo, (lo + hi) \div 2) IN
                 IF early # <<>> THEN early
                 ELSE FirstReturn((lo + hi) \div 2, hi)
        found == FirstReturn(0, WalkLimit)
    IN IF found # <<>> THEN openEpochOf(cursor(found[1]))
       ELSE AddMs(fromEpoch, DAY_MS)

\* computeContext(nowEpoch)
computeContext(nowEpoch) ==
    LET p == toKstParts(nowEpoch)
        openEpoch == epochFromKst(p.year, p.month, p.day, 9, 0, 0)
        closeEpoch == epochFromKst(p.year, p.month, p.day, 15, 30, 0)
    IN IF /\ isTradingDay(p)
          /\ ~InstBefore(nowEpoch, openEpoch)
          /\ InstBefore(nowEpoch, closeEpoch)
       THEN [state |-> "open", label |-> "until_close", target |-> closeEpoch]
       ELSE [state |-> "closed", label |-> "until_next_open",
             target |-> findNextOpenEpoch(nowEpoch)]

\* formatHms(seconds): the numbers of the text hh:mm:ss
formatHms(seconds) ==
    LET s == IF seconds > 0 THEN seconds ELSE 0
    IN <<s \div 3600, (s % 3600) \div 60, s % 60>>

\* render(ctx, nowEpoch); Math.floor((ctx.targetEpoch - nowEpoch) / 1000) is
\* taken day part and millisecond part apart (DAY_MS is whole seconds)
render(ctx, nowEpoch) ==
    LET floorSec == (ctx.target[1] - nowEpoch[1]) * (DAY_MS \div 1000)
                    + ((ctx.target[2] - nowEpoch[2]) \div 1000)
        remainSec == IF floorSec > 0 THEN floorSec ELSE 0
    IN [status |-> IF ctx.state = "open" THEN "OPEN" ELSE "CLOSED",
        label |-> ctx.label,
        time |-> formatHms(remainSec)]

\* The first day of the model's clock readings: Thursday 2026-12-31.
FirstDay == DaysFromCivil(2026, 12, 31)

\* The clock readings run over the days FirstDay .. FirstDay + MaxDayOffset.
MaxDayOffset == 4

\* Times of the KST day a clock is read at: midnight, around the open,
\* around the close, the last millisecond.
SampleDayTimes ==
    { 0, KRX_OPEN_TIME - 1, KRX_OPEN_TIME, KRX_CLOSE_TIME - 1, KRX_CLOSE_TIME,
      DAY_MS - 1 }

\* The instants a clock can read.
ClockReadings ==
    { AddMs(<<FirstDay + k, t>>, -KST_OFFSET_MS) :
        k \in 0..MaxDayOffset, t \in SampleDayTimes }

\* Days the holiday calendar can name: Friday 2027-01-01, Monday 2027-01-04.
HolidayCandidates ==
    { strftime(DaysFromCivil(2027, 1, 1)), strftime(DaysFromCivil(2027, 1, 4)) }

\* A holiday list that names every date the forward walk can look at from
\* any clock reading of the model.
EveryDayHoliday ==
    { strftime(d) : d \in (FirstDay - 1)..(FirstDay + MaxDayOffset + WalkLimit + 1) }

\* The page loads at which the holiday list is EveryDayHoliday: just before
\* the open and at the close of the first day.
ExhaustedLoads ==
    { AddMs(<<FirstDay, t>>, -KST_OFFSET_MS) :
        t \in {KRX_OPEN_TIME - 1, KRX_CLOSE_TIME} }

InitCal ==
    /\ c_pc = "load"
    /\ \/ /\ now_epoch \in ClockReadings
          /\ holiday_dates \in SUBSET HolidayCandidates
       \/ /\ now_epoch \in ExhaustedLoads
          /\ holiday_dates = EveryDayHoliday
    /\ py_ctx = NoCtx
    /\ js_now = <<0, 0>>
    /\ js_ctx = NoCtx
    /\ display = NoDisplay

\* now_kst = datetime.now(KST_TZ); countdown_context =
\* get_market_countdown_context(now_kst); render_market_countdown(...) up to
\* the script's initial texts
LoadPage ==
    /\ UNCHANGED notCal
    /\ c_pc = "load"
    /\ \E context \in {get_market_countdown_context(now_in_kst(now_epoch))} :
         /\ py_ctx' = context
         /\ display' = [status |-> IF context.state = "open" THEN "OPEN"
                                   ELSE "CLOSED",
                        label |-> context.label,
                        time |-> <<0, 0, 0>>]
    /\ c_pc' = "rendered"
    /\ UNCHANGED <<now_epoch, holiday_dates, js_now, js_ctx>>

\* tick that computes the context once and then counts down to the stored
\* target
tick_StoredTarget ==
    /\ UNCHANGED notCal
    /\ c_pc \in {"rendered", "ticking"}
    /\ \E now \in ClockReadings :
       \E ctx \in {IF c_pc = "ticking" THEN js_ctx ELSE computeContext(now)} :
         /\ js_now' = now
         /\ js_ctx' = ctx
         /\ display' = render(ctx, now)
    /\ c_pc' = "ticking"
    /\ UNCHANGED <<now_epoch, holiday_dates, py_ctx>>

\* tick(): called once by the script and then by setInterval
tick ==
    /\ UNCHANGED notCal
    /\ c_pc \in {"rendered", "ticking"}
    /\ \E now \in ClockReadings :
       \E ctx \in {computeContext(now)} :
         /\ js_now' = now
         /\ js_ctx' = ctx
         /\ display' = render(ctx, now)
    /\ c_pc' = "ticking"
    /\ UNCHANGED <<now_epoch, holiday_dates, py_ctx>>

NextCal ==
    \/ LoadPage
    \/ tick

StartCal ==
    InitCal /\ IdleFetch /\ IdleResolve /\ IdleSearch /\ IdleAlign
    /\ IdleExtract /\ IdleValid

SpecCal == StartCal /\ [][NextCal]_vars

-----------------------------------------------------------------------------
(* extract_rows_from_krx_payload                                           *)

\* An element of a JSON list: a map (a row) or anything else.
DictElem(n) == [isDict |-> TRUE, id |-> n]

OtherElem(n) == [isDict |-> FALSE, id |-> n]

\* A JSON value under a key: a list of elements, or something that is not
\* a list (a string, a number, null, a nested map).
ListValue(elems) == [isList |-> TRUE, elems |-> elems]

Scalar == [isList |-> FALSE, elems |-> <<>>]

\* A payload is a list, a map (its entries in iteration order, keys
\* distinct), or neither.
ListPayload(elems) == [kind |-> "list", elems |-> elems, entries |-> <<>>]

DictPayload(entries) == [kind |-> "dict", elems |-> <<>>, entries |-> entries]

OtherPayload == [kind |-> "other", elems |-> <<>>, entries |-> <<>>]

preferred_keys == <<"OutBlock_1", "output", "result", "data", "list">>

\* [row for row in val if isinstance(row, dict)]
dict_rows(val) == SelectSeq(val, LAMBDA row : row.isDict)

\* payload.get(key): the value under key, None (not a list) when absent.
payload_get(p, key) ==
    IF \E i \in 1..Len(p.entries) : p.entries[i].key = key
    THEN LET i == CHOOSE j \in 1..Len(p.entries) : p.entries[j].key = key
         IN p.entries[i].val
    ELSE Scalar

\* rows after the loop over preferred_keys[1..n]
RECURSIVE preferred_rows(_, _)
preferred_rows(p, n) ==
    IF n = 0 THEN <<>>
    ELSE LET val == payload_get(p, preferred_keys[n])
         IN IF val.isList
            THEN preferred_rows(p, n - 1) \o dict_rows(val.elems)
            ELSE preferred_rows(p, n - 1)

\* rows after the loop over the first n of payload.values()
RECURSIVE scanned_rows(_, _)
scanned_rows(p, n) ==
    IF n = 0 THEN <<>>
    ELSE LET val == p.entries[n].val
         IN IF val.isList
            THEN scanned_rows(p, n - 1) \o dict_rows(val.elems)
            ELSE scanned_rows(p, n - 1)

extract_rows_from_krx_payload(p) ==
    IF p.kind = "list" THEN dict_rows(p.elems)
    ELSE IF p.kind # "dict" THEN <<>>
    ELSE LET found == preferred_rows(p, Len(preferred_keys))
         IN IF found # <<>> THEN found
            ELSE found \o scanned_rows(p, Len(p.entries))

\* Most entries a modelled map payload has.
MaxEntries == 2

PayloadKeys == {"OutBlock_1", "output", "extra"}

PayloadLists ==
    { <<>>, <<OtherElem(1)>>, <<DictElem(1)>>,
      <<DictElem(2), OtherElem(1)>> }

PayloadValues == {Scalar} \cup { ListValue(l) : l \in PayloadLists }

PayloadEntries == [key : PayloadKeys, val : PayloadValues]

EntryLists ==
    { es \in UNION { [1..n -> PayloadEntries] : n \in 0..MaxEntries } :
        \A i, j \in 1..Len(es) : i # j => es[i].key # es[j].key }

Payloads ==
    {OtherPayload}
      \cup { ListPayload(l) : l \in PayloadLists }
      \cup { DictPayload(es) : es \in EntryLists }

InitExtract ==
    /\ x_pc = "input"
    /\ payload \in Payloads
    /\ x_rows = <<>>

Extract ==
    /\ x_pc = "input"
    /\ x_rows' = extract_rows_from_krx_payload(payload)
    /\ x_pc' = "extracted"
    /\ UNCHANGED <<payload, notExtract>>

NextExtract == Extract

StartExtract ==
    InitExtract /\ IdleFetch /\ IdleResolve /\ IdleSearch /\ IdleAlign
    /\ IdleCal /\ IdleValid

SpecExtract == StartExtract /\ [][NextExtract]_vars

-----------------------------------------------------------------------------
(* get_valid_data                                                          *)

\* range(10): the iterations of the look-back loop
LookbackDays == 10

\* date.strftime('%Y%m%d')
strftime_compact(date) ==
    LET c == CivilFromDays(date) IN
    padStart(String(c.year), 4) \o padStart(String(c.month), 2)
        \o padStart(String(c.day), 2)

\* What the request of fetch_index_data can come to: a non-empty JSON
\* list, an empty one, or an exception (network, HTTP status, parsing).
FetchIndexOutcomes == {"data", "no data", "exception"}

\* fetch_index_data(index_type, today_str), the outcome of its request
\* given: the frame of the data, an empty frame otherwise.
fetch_index_data(index_type, today_str, outcome) ==
    IF outcome = "data"
    THEN << [koreaIndexType |-> index_type, thistime |-> today_str] >>
    ELSE <<>>

\* not df_kospi.empty and not df_kosdaq.empty
has_data_InBoth(kospi, kosdaq) == kospi # <<>> /\ kosdaq # <<>>

\* not df_kospi.empty or not df_kosdaq.empty
has_data(kospi, kosdaq) == kospi # <<>> \/ kosdaq # <<>>

\* The start dates run over FirstDay .. FirstDay + MaxStartOffset.
MaxStartOffset == 6

StartDates == FirstDay..(FirstDay + MaxStartOffset)

InitValid ==
    /\ v_pc = "loop"
    /\ start_date \in StartDates
    /\ current_date = start_date
    /\ v_iter = 0
    /\ v_examined = <<>>
    /\ v_fetched = <<>>
    /\ v_result = [df_kospi |-> <<>>, df_kosdaq |-> <<>>, date_str |-> <<>>]

\* An iteration on a Saturday or Sunday: step back a day and continue.
SkipWeekend ==
    /\ v_pc = "loop"
    /\ v_iter < LookbackDays
    /\ weekday(current_date) >= 5
    /\ v_iter' = v_iter + 1
    /\ v_examined' = Append(v_examined, current_date)
    /\ current_date' = current_date - 1
    /\ UNCHANGED <<v_pc, start_date, v_fetched, v_result, notValid>>

\* An iteration on a weekday: fetch both indices, return when either frame
\* has rows, step back a day otherwise.
FetchDay ==
    /\ v_pc = "loop"
    /\ v_iter < LookbackDays
    /\ weekday(current_date) < 5
    /\ v_iter' = v_iter + 1
    /\ v_examined' = Append(v_examined, current_date)
    /\ \E out_kospi, out_kosdaq \in FetchIndexOutcomes :
         LET date_str == strftime_compact(current_date)
             kospi == fetch_index_data("KOSPI", date_str, out_kospi)
             kosdaq == fetch_index_data("KOSDAQ", date_str, out_kosdaq)
         IN /\ v_fetched' = Append(v_fetched,
                               [date |-> current_date, df_kospi |-> kospi,
                                df_kosdaq |-> kosdaq])
            /\ IF has_data(kospi, kosdaq)
               THEN /\ v_pc' = "done"
                    /\ v_result' = [df_kospi |-> kospi, df_kosdaq |-> kosdaq,
                                    date_str |-> <<date_str>>]
                    /\ UNCHANGED current_date
               ELSE /\ current_date' = current_date - 1
                    /\ UNCHANGED <<v_pc, v_result>>
    /\ UNCHANGED <<start_date, notValid>>

\* The loop ran out: pd.DataFrame(), pd.DataFrame(), None
ReturnEmpty ==
    /\ v_pc = "loop"
    /\ v_iter = LookbackDays
    /\ v_pc' = "done"
    /\ v_result' = [df_kospi |-> <<>>, df_kosdaq |-> <<>>, date_str |-> <<>>]
    /\ UNCHANGED <<start_date, current_date, v_iter, v_examined, v_fetched,
                   notValid>>

NextValid ==
    \/ SkipWeekend
    \/ FetchDay
    \/ ReturnEmpty

StartValid ==
    InitValid /\ IdleFetch /\ IdleResolve /\ IdleSearch /\ IdleAlign
    /\ IdleCal /\ IdleExtract

SpecValid == StartValid /\ [][NextValid]_vars

-----------------------------------------------------------------------------
(* Claims about fetch_krx_futures_by_date                                  *)

\* The fixed order of the six profile/timeout combinations.
LadderOrder ==
    << <<"minimal", 10>>, <<"minimal", 20>>, <<"navigate", 10>>,
       <<"navigate", 20>>, <<"session", 10>>, <<"session", 20>> >>

AllPrimaryFailed ==
    /\ Len(attempt_log) = 2 * Len(LadderOrder)
    /\ \A k \in 1..Len(LadderOrder) : attempt_log[2 * k][1] = "fail"

\* C1: the primary attempts run one at a time in the fixed order
\* (minimal,10), (minimal,20), (navigate,10), (navigate,20), (session,10),
\* (session,20); an attempt starts only after the previous one has failed; a
\* failed attempt never raises out of the function; and the function raises
\* only after all six combinations have been tried and have failed.
C1_SequentialLadder ==
    /\ Len(attempt_log) <= 2 * Len(LadderOrder)
    /\ \A i \in 1..Len(attempt_log) :
         LET k == (i + 1) \div 2 IN
         /\ attempt_log[i][2] = LadderOrder[k]
         /\ IF i % 2 = 1
            THEN attempt_log[i][1] = "start"
            ELSE attempt_log[i][1] \in {"fail", "ok"}
         /\ (i % 2 = 0 /\ i < Len(attempt_log)) => attempt_log[i][1] = "fail"
    /\ (f_pc \in {"fallback", "raised"}) => AllPrimaryFailed
    /\ f_result.kind = "raise" => f_pc = "raised"
    /\ \A i \in 1..Len(request_log) :
         request_log[i][1] # "curl" =>
            \E j \in 1..Len(attempt_log) :
               /\ attempt_log[j] = <<"start", request_log[i][2]>>

\* C1 witness: the function has raised after six failed attempts.
C1_Witness ==
    /\ f_pc = "raised"
    /\ AllPrimaryFailed
    /\ last_profile = "session"

CurlCalls == { i \in 1..Len(request_log) : request_log[i][1] = "curl" }

HasPart(message, part) == \E i \in 1..Len(message) : message[i].part = part

\* C2: once every primary attempt has failed, exactly one curl fallback is
\* invoked, after the last primary attempt, and whenever the fetch then
\* fails its error message holds both the last primary error and the
\* fallback error.
C2_FallbackOnceBothErrors ==
    (f_pc \in {"raised", "returned"} /\ AllPrimaryFailed) =>
        /\ Cardinality(CurlCalls) = 1
        /\ request_log[Len(request_log)][1] = "curl"
        /\ f_pc = "raised" =>
             /\ \E i \in 1..Len(f_result.message) :
                    /\ f_result.message[i].part = "request_err"
                    /\ f_result.message[i].kind = last_err.kind
                    /\ f_result.message[i].status = last_err.status
             /\ HasPart(f_result.message, "curl_fallback_error")

\* C2 witness: the fetch failed after the fallback was invoked.
C2_Witness ==
    /\ f_pc = "raised"
    /\ AllPrimaryFailed
    /\ Cardinality(CurlCalls) = 1


-----------------------------------------------------------------------------
(* Claims about the contract resolver                                      *)

\* serial(yyyymm) = year * 12 + month, as the claim states it
ClaimSerial(yyyymm) == (yyyymm \div 100) * 12 + (yyyymm % 100)

PassesAll(row) == PassesProduct(row) /\ PassesSession(row) /\ PassesName(row)

\* C4: for a non-empty set of candidate months, the winning month minimises
\* (|serial(month) - serial(current)|, 0 if month >= current else 1,
\* serial(month)); when a past month and a future-or-equal month are equally
\* near and nearest, the future-or-equal month wins; the returned row is a
\* row of the winning month.
C4_NearestMonth ==
    (r_pc = "resolved" /\ candidates # <<>>) =>
        LET months == CandidateMonths(candidates)
            cur == ClaimSerial(current_yyyymm)
            dist(m) == Abs(ClaimSerial(m) - cur)
            side(m) == IF ClaimSerial(m) >= cur THEN 0 ELSE 1
            Before(a, b) ==
                \/ dist(a) < dist(b)
                \/ dist(a) = dist(b) /\ side(a) < side(b)
                \/ dist(a) = dist(b) /\ side(a) = side(b)
                   /\ ClaimSerial(a) < ClaimSerial(b)
        IN /\ target_month \in months
           /\ \A m \in months \ {target_month} : Before(target_month, m)
           /\ \A p \in months, f \in months :
                (/\ ClaimSerial(p) < cur
                 /\ ClaimSerial(f) >= cur
                 /\ dist(p) = dist(f)
                 /\ \A m \in months : dist(m) >= dist(p))
                => target_month = f
           /\ Len(selected) = 1
           /\ match_isu_nm(Strip(selected[1].ISU_NM)) = target_month

\* C4 witness: a past and a future month are equally near the current month
\* and the future one was chosen.
C4_Witness ==
    /\ r_pc = "resolved"
    /\ current_yyyymm = 202601
    /\ {202512, 202602} \subseteq CandidateMonths(candidates)
    /\ target_month = 202602

\* C5: resolution gives the same row when called again on the same rows and
\* current month; within the winning month the returned row has the greatest
\* (as-of date, name) pair; and after the as-of date of one row of the
\* winning month alone was changed to be more recent than that of every
\* other row of the month, that row is the one returned.
C5_GreatestAsOfAndName ==
    (r_pc = "resolved" /\ candidates # <<>>) =>
        LET win == { i \in 1..Len(candidates) : candidates[i][1] = target_month }
            date(i) == normalize_bas_dd(candidates[i][2].BAS_DD)
            name(i) == candidates[i][2].ISU_NM
            others == { j \in 1..Len(rows) :
                          /\ j # changed
                          /\ PassesAll(rows[j])
                          /\ match_isu_nm(Strip(rows[j].ISU_NM)) = target_month }
        IN /\ selected = select_latest_kospi_night_contract(rows, current_yyyymm)
           /\ Len(selected) = 1
           /\ \E i \in win :
                /\ selected[1] = candidates[i][2]
                /\ \A j \in win :
                     \/ date(j) < date(i)
                     \/ date(j) = date(i) /\ ~StrLess(name(i), name(j))
           /\ (/\ changed # 0
               /\ PassesAll(rows[changed])
               /\ match_isu_nm(Strip(rows[changed].ISU_NM)) = target_month
               /\ \A j \in others :
                    normalize_bas_dd(rows[j].BAS_DD)
                        < normalize_bas_dd(rows[changed].BAS_DD))
              => selected[1] = rows[changed]

\* C5 witness: the winning month has two rows, the as-of date of one was
\* made the most recent, and that row is returned.
C5_Witness ==
    /\ r_pc = "resolved"
    /\ changed # 0
    /\ selected = <<rows[changed]>>
    /\ \E j \in 1..Len(rows) :
         /\ j # changed
         /\ PassesAll(rows[j])
         /\ match_isu_nm(Strip(rows[j].ISU_NM)) = target_month
         /\ StrLess(rows[changed].ISU_NM, rows[j].ISU_NM)

\* The strict name form, whitespace aside: kospi200, F, 20YY, a month 01..12
\* and the night suffix, and nothing else.
ClaimStrictName(isu_nm) ==
    LET t == RemoveSpaces(isu_nm) IN
    /\ Len(t) = 17
    /\ SubSeq(t, 1, 6) = TxtKospi200
    /\ t[7] = "F"
    /\ t[8] = "2" /\ t[9] = "0"
    /\ t[10] \in Digits /\ t[11] \in Digits
    /\ DigitsToInt(<<t[12], t[13]>>) \in 1..12
    /\ SubSeq(t, 14, 17) = TxtNightSuffix

\* C6: the returned row passes the product test, the session test and the
\* strict name pattern; rows failing any test are left out without ending
\* the resolution; the result is absent exactly when no row passes all
\* three.
C6_StrictFilters ==
    r_pc = "resolved" =>
        LET passing == { i \in 1..Len(rows) : PassesAll(rows[i]) } IN
        /\ (selected = <<>>) <=> (passing = {})
        /\ Len(candidates) = Cardinality(passing)
        /\ \A i \in 1..Len(candidates) :
             \E j \in passing : candidates[i][2] = rows[j]
        /\ selected # <<>> =>
             /\ \E j \in passing : selected[1] = rows[j]
             /\ Contains(RemoveSpaces(selected[1].PROD_NM), TxtKospi200Futures)
             /\ Contains(RemoveSpaces(selected[1].MKT_NM), TxtNight)
             /\ ClaimStrictName(selected[1].ISU_NM)

\* C6 witness: a row was returned from a list that also holds rows failing
\* the session test and the name pattern.
C6_Witness ==
    /\ r_pc = "resolved"
    /\ selected # <<>>
    /\ \E i \in 1..Len(rows) : ~PassesSession(rows[i])
    /\ \E i \in 1..Len(rows) : PassesProduct(rows[i]) /\ ~PassesName(rows[i])

-----------------------------------------------------------------------------
(* Claims about the multi-date search                                      *)

\* What candidate number k gave: a selected row, or nothing (the fetch
\* raised, or no row of its list was selected).
SelectionOf(k) ==
    IF fetch_calls[k].outcome.kind = "raise" THEN <<>>
    ELSE select_latest_kospi_night_contract(fetch_calls[k].outcome.rows,
                                            s_current_yyyymm)

\* C3: a fetch failure or an empty or non-matching result for one candidate
\* never ends the search; candidates are tried in list order; the search
\* returns the selected row of the first candidate that yields one and tries
\* no later candidate; a failure (no row, with a message) is returned only
\* after every candidate of the list has been tried.
C3_SearchTriesAllInOrder ==
    /\ Len(fetch_calls) <= Len(bas_dd_candidates)
    /\ \A k \in 1..Len(fetch_calls) :
         /\ fetch_calls[k].bas_dd = bas_dd_candidates[k]
         /\ k < Len(fetch_calls) => SelectionOf(k) = <<>>
    /\ (s_pc = "loop" /\ fetch_calls # <<>>) =>
         SelectionOf(Len(fetch_calls)) = <<>>
    /\ (s_pc = "done" /\ s_result.row # <<>>) =>
         /\ fetch_calls # <<>>
         /\ s_result.row = SelectionOf(Len(fetch_calls))
         /\ s_result.message = <<>>
    /\ (s_pc = "done" /\ s_result.row = <<>>) =>
         /\ Len(fetch_calls) = Len(bas_dd_candidates)
         /\ s_result.message # <<>>
         /\ \A k \in 1..Len(fetch_calls) : SelectionOf(k) = <<>>

\* C3 witness: the first candidate's fetch raised, the second gave no
\* matching row, the third gave the returned row, and a fourth was not tried.
C3_Witness ==
    /\ s_pc = "done"
    /\ s_result.row # <<>>
    /\ Len(fetch_calls) = 3
    /\ Len(bas_dd_candidates) > 3
    /\ fetch_calls[1].outcome.kind = "raise"
    /\ fetch_calls[2].outcome.kind = "return"


-----------------------------------------------------------------------------
(* Claims about update_dashboard, calculate_y_axis_bounds, get_extrema_info *)

\* The samples of frame df whose minute label is the label of slot.
SamplesAt(df, label) ==
    { j \in 1..Len(df) : time_hm(df[j].thistime) = label }

\* values is one entry per grid slot, each absent or the value of a sample
\* of df at the slot's label.
AlignedTo(values, df) ==
    /\ Len(values) = Len(generate_full_timeline)
    /\ \A i \in 1..Len(values) :
          \/ values[i] = <<>>
          \/ \E j \in SamplesAt(df, generate_full_timeline[i]) :
                df[j].nowVal = values[i]

\* C7: once the series are aligned, each aligned value list has exactly
\* one entry per grid slot, in grid order, and each entry is absent or the
\* value of a sample of its series at that slot's minute label.
C7_AlignedLength ==
    a_pc \in {"aligned", "stats"} =>
        /\ AlignedTo(kospi_nums, df_kospi)
        /\ AlignedTo(kosdaq_nums, df_kosdaq)

\* Two KOSPI samples of one grid minute have been aligned and the list is
\* longer than the grid.
C7_Witness ==
    /\ a_pc = "aligned"
    /\ \E i, j \in 1..Len(df_kospi) :
          /\ i # j
          /\ time_hm(df_kospi[i].thistime) = time_hm(df_kospi[j].thistime)
          /\ SamplesAt(<<df_kospi[i]>>, generate_full_timeline[6]) # {}
    /\ Len(kospi_nums) > Len(generate_full_timeline)

\* The indices of values that hold a value.
Present(values) == { i \in 1..Len(values) : values[i] # <<>> }

LeastOf(idx) == CHOOSE i \in idx : \A j \in idx : i <= j

\* The bounds the claim states for values, in thousandths: <<low, high>>
\* around the first present value, spread reference * 0.005 for a flat
\* series and 1.15 * margin otherwise.
StatedBounds(values) ==
    LET reference == values[LeastOf(Present(values))][1]
        vals == { values[i][1] : i \in Present(values) }
        hi == CHOOSE v \in vals : \A w \in vals : w <= v
        lo == CHOOSE v \in vals : \A w \in vals : v <= w
        margin == IF hi - reference >= reference - lo
                  THEN hi - reference ELSE reference - lo
        spread == IF margin = 0 THEN reference * 5 ELSE margin * 1150
    IN << reference * 1000 - spread, reference * 1000 + spread >>

BoundsAsStated(bounds, values) ==
    /\ (bounds = <<>>) <=> (Present(values) = {})
    /\ bounds # <<>> =>
          /\ bounds = StatedBounds(values)
          /\ bounds[1] <= values[LeastOf(Present(values))][1] * 1000
          /\ values[LeastOf(Present(values))][1] * 1000 <= bounds[2]

\* C8: the bounds of a series are absent exactly when it has no value;
\* otherwise they are reference -/+ reference*0.005 for a flat series and
\* reference -/+ 1.15*margin otherwise, with low <= reference <= high,
\* reference being the first value in grid order.
C8_AnchoredBounds ==
    a_pc = "stats" =>
        /\ BoundsAsStated(k_bounds, kospi_nums)
        /\ BoundsAsStated(q_bounds, kosdaq_nums)

\* A flat series of one negative value has its bounds computed, and the
\* low bound lies above the high bound.
C8_Witness ==
    /\ a_pc = "stats"
    /\ Present(kospi_nums) # {}
    /\ \A i \in Present(kospi_nums) : kospi_nums[i][1] < 0
    /\ k_bounds[1] > k_bounds[2]

\* The indices of the (label, value) pairs get_extrema_info sees: zip pairs
\* a label with a value up to the shorter of the two lists.
Paired(values) ==
    { i \in Present(values) : i <= Len(generate_full_timeline) }

\* extrema is absent exactly when no pair has a value; otherwise its max
\* (min) is the pair of the least index among the pairs of greatest
\* (least) value.
ExtremaAsStated(extrema, values) ==
    /\ (extrema = <<>>) <=> (Paired(values) = {})
    /\ extrema # <<>> =>
          LET P == Paired(values)
              imax == LeastOf({ i \in P : \A j \in P : values[j][1] <= values[i][1] })
              imin == LeastOf({ i \in P : \A j \in P : values[i][1] <= values[j][1] })
          IN /\ extrema[1] = <<generate_full_timeline[imax], values[imax][1]>>
             /\ extrema[2] = <<generate_full_timeline[imin], values[imin][1]>>

-----------------------------------------------------------------------------
(* Claims about the session countdown                                      *)

\* Friday 2027-01-01 and Monday 2027-01-04 as day numbers, and their texts.
ClaimDays == [friday |-> 20819, monday |-> 20822]
ClaimFriday == ClaimDays.friday
ClaimMonday == ClaimDays.monday
TxtFriday == <<"2", "0", "2", "7", "-", "0", "1", "-", "0", "1">>
TxtMonday == <<"2", "0", "2", "7", "-", "0", "1", "-", "0", "4">>

\* day is a trading day: Monday to Friday and not named by holiday_dates.
ClaimTradingDay(day) ==
    /\ (day - ClaimMonday) % 7 \in 0..4
    /\ ~(day = ClaimFriday /\ TxtFriday \in holiday_dates)
    /\ ~(day = ClaimMonday /\ TxtMonday \in holiday_dates)
    /\ holiday_dates # EveryDayHoliday

\* The first trading day after day.
NextTradingDay(day) ==
    CHOOSE n \in (day + 1)..(day + 7) :
        ClaimTradingDay(n) /\ \A k \in (day + 1)..(n - 1) : ~ClaimTradingDay(k)

\* The KST day and the time of that day of an instant.
KstDay(inst) == IF inst[2] >= 15 * 3600000 THEN inst[1] + 1 ELSE inst[1]
KstTime(inst) ==
    IF inst[2] >= 15 * 3600000 THEN inst[2] - 15 * 3600000
    ELSE inst[2] + 9 * 3600000

\* The instant of the time t of the KST day.
KstInstant(day, t) ==
    IF t >= 9 * 3600000 THEN <<day, t - 9 * 3600000>>
    ELSE <<day - 1, t + 15 * 3600000>>

ClaimOpen == 9 * 3600000
ClaimClose == 15 * 3600000 + 30 * 60000

\* ctx is what the claim states for the instant now: open exactly on
\* [open, close) of a trading day with that day's close as target, else
\* closed; at the close of a trading day the target is the open of the
\* next trading day.
HalfOpenSession(ctx, now) ==
    LET day == KstDay(now)
        t == KstTime(now)
    IN /\ (ctx.state = "open") <=>
            (ClaimTradingDay(day) /\ ClaimOpen <= t /\ t < ClaimClose)
       /\ (ctx.state = "closed") <=>
            ~(ClaimTradingDay(day) /\ ClaimOpen <= t /\ t < ClaimClose)
       /\ (ClaimTradingDay(day) /\ t = ClaimClose) =>
            /\ ctx.state = "closed"
            /\ ctx.target = KstInstant(NextTradingDay(day), ClaimOpen)
       /\ (ClaimTradingDay(day) /\ t = ClaimOpen) =>
            /\ ctx.state = "open"
            /\ ctx.target = KstInstant(day, ClaimClose)

\* C10: the session interval is half-open [open, close): at 15:30:00 KST
\* of a trading day the phase is closed and the target is the open of the
\* next trading day; at 09:00:00 KST of a trading day the phase is open and
\* the target is that day's close - in the page-load computation and in
\* every tick of the script.
C10_HalfOpenSession ==
    /\ c_pc \in {"rendered", "ticking"} => HalfOpenSession(py_ctx, now_epoch)
    /\ c_pc = "ticking" => HalfOpenSession(js_ctx, js_now)

\* The page was loaded at the close of Thursday 2026-12-31 with Friday a
\* holiday, the target being Monday's open, and the script ticked at the
\* close of that Monday, the target being Tuesday's open.
C10_Witness ==
    /\ c_pc = "ticking"
    /\ TxtFriday \in holiday_dates
    /\ TxtMonday \notin holiday_dates
    /\ now_epoch = KstInstant(ClaimFriday - 1, ClaimClose)
    /\ py_ctx.state = "closed"
    /\ py_ctx.target = KstInstant(ClaimMonday, ClaimOpen)
    /\ js_now = KstInstant(ClaimMonday, ClaimClose)
    /\ js_ctx.state = "closed"
    /\ js_ctx.target = KstInstant(ClaimMonday + 1, ClaimOpen)

\* a is earlier than b (instants).
ClaimBefore(a, b) == a[1] < b[1] \/ (a[1] = b[1] /\ a[2] < b[2])

\* The forward walk from now finds nothing: none of its WalkLimit days is
\* a trading day whose open is after now.
ClaimExhausted(now) ==
    \A d \in KstDay(now)..(KstDay(now) + WalkLimit - 1) :
        ~(ClaimTradingDay(d) /\ ClaimBefore(now, KstInstant(d, ClaimOpen)))

\* C11: the page-load computation and the tick, given the same instant and
\* the same holiday list, give the same phase and the same target instant,
\* also when the forward walk finds no trading day.
C11_HalvesAgree ==
    (c_pc = "ticking" /\ js_now = now_epoch) =>
        /\ js_ctx.state = py_ctx.state
        /\ js_ctx.target = py_ctx.target

\* Both halves ran at one instant with every day a holiday: the page-load
\* target is 09:00 KST of the day WalkLimit days ahead, the tick's target
\* is the instant one day ahead.
C11_Witness ==
    /\ c_pc = "ticking"
    /\ js_now = now_epoch
    /\ holiday_dates = EveryDayHoliday
    /\ py_ctx.state = "closed" /\ js_ctx.state = "closed"
    /\ py_ctx.target = KstInstant(KstDay(now_epoch) + WalkLimit, ClaimOpen)
    /\ js_ctx.target = <<js_now[1] + 1, js_now[2]>>

\* target is the earliest open of a trading day after now.
EarliestOpen(target, now) ==
    \E d \in KstDay(now)..(KstDay(now) + 7) :
        /\ ClaimTradingDay(d)
        /\ target = KstInstant(d, ClaimOpen)
        /\ ClaimBefore(now, target)
        /\ \A e \in KstDay(now)..(d - 1) :
              ~(ClaimTradingDay(e) /\ ClaimBefore(now, KstInstant(e, ClaimOpen)))

\* C12: whenever the phase is closed the target is the 09:00:00 KST open
\* of a trading day, strictly after now, and no trading day's open lies
\* between now and the target - at page load and in every tick.
C12_EarliestOpen ==
    /\ (c_pc \in {"rendered", "ticking"} /\ py_ctx.state = "closed") =>
           EarliestOpen(py_ctx.target, now_epoch)
    /\ (c_pc = "ticking" /\ js_ctx.state = "closed") =>
           EarliestOpen(js_ctx.target, js_now)

\* The same with the holiday lists that leave the walk a trading day.
C12_EarliestOpenUnlessExhausted ==
    /\ (c_pc \in {"rendered", "ticking"} /\ py_ctx.state = "closed"
          /\ ~ClaimExhausted(now_epoch)) =>
           EarliestOpen(py_ctx.target, now_epoch)
    /\ (c_pc = "ticking" /\ js_ctx.state = "closed"
          /\ ~ClaimExhausted(js_now)) =>
           EarliestOpen(js_ctx.target, js_now)

\* The phase is closed, every day is a holiday, and the tick's target is
\* an instant that is no 09:00:00 KST.
C12_Witness ==
    /\ c_pc = "ticking"
    /\ holiday_dates = EveryDayHoliday
    /\ js_ctx.state = "closed"
    /\ KstTime(js_ctx.target) # ClaimOpen

\* The target the claim gives an instant, when the walk is not exhausted.
ClaimTarget(now) ==
    IF ClaimTradingDay(KstDay(now)) /\ ClaimOpen <= KstTime(now)
       /\ KstTime(now) < ClaimClose
    THEN KstInstant(KstDay(now), ClaimClose)
    ELSE CHOOSE t \in { KstInstant(d, ClaimOpen) :
                          d \in KstDay(now)..(KstDay(now) + 7) } :
             EarliestOpen(t, now)

\* Whole seconds from now to target.
ClaimSeconds(target, now) ==
    ((target[1] - now[1]) * 86400000 + target[2] - now[2]) \div 1000

\* C13: after any sequence of ticks the phase, label and remaining time
\* shown are those a computation from the last tick's own clock reading
\* alone gives, whatever the earlier ticks and the page load read, and the
\* remaining time shown is not negative.
C13_TickStateless ==
    c_pc = "ticking" =>
        /\ js_ctx = computeContext(js_now)
        /\ display = render(computeContext(js_now), js_now)
        /\ display.time[1] >= 0 /\ display.time[2] >= 0 /\ display.time[3] >= 0
        /\ ~ClaimExhausted(js_now) =>
              LET secs == ClaimSeconds(ClaimTarget(js_now), js_now) IN
              /\ (display.status = "OPEN") <=>
                    (ClaimTarget(js_now) = KstInstant(KstDay(js_now), ClaimClose)
                     /\ ClaimOpen <= KstTime(js_now))
              /\ display.time = <<secs \div 3600, (secs % 3600) \div 60, secs % 60>>

\* A tick read a clock earlier than the page load's and shows a phase
\* other than the page load's.
C13_Witness ==
    /\ c_pc = "ticking"
    /\ ClaimBefore(js_now, now_epoch)
    /\ js_ctx.state = "open"
    /\ py_ctx.state = "closed"
    /\ display.status = "OPEN"

\* C14: when the forward walk is exhausted the computation gives the
\* error CalendarExhausted and no target instant, at page load and in the
\* tick.
C14_ExhaustionSurfaced ==
    /\ (c_pc \in {"rendered", "ticking"} /\ ClaimExhausted(now_epoch)) =>
           py_ctx.state = "CalendarExhausted"
    /\ (c_pc = "ticking" /\ ClaimExhausted(js_now)) =>
           js_ctx.state = "CalendarExhausted"

\* The walk was exhausted at page load and the context is a closed phase
\* with a target instant.
C14_Witness ==
    /\ c_pc = "rendered"
    /\ ClaimExhausted(now_epoch)
    /\ py_ctx.state = "closed"
    /\ py_ctx.target = KstInstant(KstDay(now_epoch) + WalkLimit, ClaimOpen)

-----------------------------------------------------------------------------
(* Further claims about fetch_krx_futures_by_date                          *)

\* A primary attempt parsed a JSON payload with no rows: its response passed
\* the status check and the call has ended on it.
PrimaryGotEmpty ==
    /\ attempt_log # <<>>
    /\ attempt_log[Len(attempt_log)][1] = "ok"
    /\ response.body = "json_empty"

\* C15: whenever a primary attempt or the curl fallback obtains a JSON
\* payload from which no rows are extracted, the fetch returns the empty
\* list and does not raise.
C15_EmptyIsNotAnError ==
    (f_pc \in {"returned", "raised"} /\ (PrimaryGotEmpty \/ curl_output = "json_empty")) =>
        /\ f_result.kind = "return"
        /\ f_result.rows = <<>>

\* The curl fallback printed JSON without rows and the fetch raised.
C15_Witness ==
    /\ f_pc = "raised"
    /\ curl_output = "json_empty"
    /\ f_result.kind = "raise"

\* The kinds of the network calls of the attempt at, in the order issued.
RECURSIVE KindsOf(_, _)
KindsOf(log, at) ==
    IF log = <<>> THEN <<>>
    ELSE (IF Head(log)[2] = at THEN <<Head(log)[1]>> ELSE <<>>)
         \o KindsOf(Tail(log), at)

IsPrefix(a, b) == Len(a) <= Len(b) /\ \A i \in 1..Len(a) : a[i] = b[i]

\* The calls of one attempt: for the warm-up profile the warm-up GET, then
\* the real request, then at most one redirect request.
CallsAllowed(at) ==
    IF at[1] = "session" THEN <<"warmup", "real", "redirect">>
    ELSE <<"real", "redirect">>

\* The Location values that make a redirect response, and the URL each
\* resolves to against the request URL with http turned into https.
ClaimResolved(location) ==
    IF location = "http://other/path" THEN "https://other/path"
    ELSE "https://data-dbg.krx.co.kr/relative"

C18_State ==
    /\ \A k \in 1..Len(LadderOrder) :
          IsPrefix(KindsOf(request_log, LadderOrder[k]), CallsAllowed(LadderOrder[k]))
    /\ (request_log # <<>> /\ last_request.kind \in {"real", "redirect"}) =>
          ~last_request.allow_redirects
    /\ (request_log # <<>> /\ last_request.kind = "real") =>
          last_request.url = url
    /\ (f_pc = "redirect") =>
          (response.status = 302 /\ response.location # "")
    /\ (f_pc = "check" /\ last_request.kind = "real") =>
          ~(response.status = 302 /\ response.location # "")

C18_Step ==
    (request_log' # request_log /\ last_request'.kind = "redirect") =>
        /\ f_pc = "redirect" /\ last_request.kind = "real"
        /\ last_request'.attempt = last_request.attempt
        /\ last_request'.url = ClaimResolved(response.location)
        /\ f_pc' # "redirect"

\* C18: in one primary attempt the real request goes out with redirects
\* disabled; exactly when its response is a redirect with a Location one
\* more request goes out, to the Location resolved against the request URL
\* with http turned into https, and no redirect is followed after it; the
\* warm-up GET of a warm-up profile comes before the real request.
C18_RedirectOnce == []C18_State /\ [][C18_Step]_vars

\* An attempt of the warm-up profile issued its warm-up, its real request
\* and a redirect request to an http Location, sent to the https URL.
C18_Witness ==
    /\ request_log # <<>>
    /\ last_request.kind = "redirect"
    /\ last_request.attempt[1] = "session"
    /\ last_request.url = "https://other/path"
    /\ KindsOf(request_log, last_request.attempt) = <<"warmup", "real", "redirect">>

-----------------------------------------------------------------------------
(* Claims about extract_rows_from_krx_payload                              *)

PriorityOrder == <<"OutBlock_1", "output", "result", "data", "list">>

KeysOf(p) == [i \in 1..Len(p.entries) |-> p.entries[i].key]

HoldsList(p, key) ==
    \E i \in 1..Len(p.entries) :
        p.entries[i].key = key /\ p.entries[i].val.isList

MapsUnder(p, key) ==
    IF HoldsList(p, key)
    THEN LET i == CHOOSE j \in 1..Len(p.entries) : p.entries[j].key = key
         IN SelectSeq(p.entries[i].val.elems, LAMBDA e : e.isDict)
    ELSE <<>>

\* The map elements of the list values under the given keys, key by key.
RECURSIVE MapsUnderAll(_, _)
MapsUnderAll(p, keys) ==
    IF keys = <<>> THEN <<>>
    ELSE MapsUnder(p, Head(keys)) \o MapsUnderAll(p, Tail(keys))

HasPriorityList(p) ==
    \E i \in 1..Len(PriorityOrder) : HoldsList(p, PriorityOrder[i])

ExtractAsStated(p) ==
    IF HasPriorityList(p) THEN MapsUnderAll(p, PriorityOrder)
    ELSE MapsUnderAll(p, KeysOf(p))

\* C16: for a map payload the result is the concatenation, in priority-key
\* order, of the map elements of the list values under the priority keys;
\* all values are scanned in iteration order only if no priority key holds
\* a list, so a priority key holding an empty list, or a list without map
\* elements, prevents the scan.
C16_PriorityListPreventsScan ==
    (x_pc = "extracted" /\ payload.kind = "dict")
        => x_rows = ExtractAsStated(payload)

\* C16: a map payload whose priority key holds a list without map elements
\* and whose other key holds a list with a map element has been unpacked.
C16_Witness ==
    /\ x_pc = "extracted"
    /\ payload.kind = "dict"
    /\ HasPriorityList(payload)
    /\ MapsUnderAll(payload, PriorityOrder) = <<>>
    /\ \E i \in 1..Len(payload.entries) :
          /\ payload.entries[i].key = "extra"
          /\ payload.entries[i].val.isList
          /\ \E k \in 1..Len(payload.entries[i].val.elems) :
                payload.entries[i].val.elems[k].isDict

-----------------------------------------------------------------------------
(* Further claims about update_dashboard                                   *)

\* The sample of df received last among those with the given minute label.
LatestAt(df, label) ==
    df[CHOOSE j \in SamplesAt(df, label) :
          \A k \in SamplesAt(df, label) : k <= j]

\* values has one entry per grid slot, and a slot whose label has samples
\* in df holds the value of the last of them in the order of df.
LatestWins(values, df) ==
    /\ Len(values) = Len(generate_full_timeline)
    /\ \A i \in 1..Len(generate_full_timeline) :
          SamplesAt(df, generate_full_timeline[i]) # {} =>
              values[i] = LatestAt(df, generate_full_timeline[i]).nowVal

\* C17: when a series has several samples for one minute label, the
\* aligned series has a single value for that grid slot, the value of the
\* sample received last for that minute; earlier duplicates do not appear.
C17_LatestDuplicateWins ==
    a_pc \in {"aligned", "stats"} =>
        /\ LatestWins(kospi_nums, df_kospi)
        /\ LatestWins(kosdaq_nums, df_kosdaq)

\* C17: a KOSPI series with two samples of different value in the 09:05
\* slot has been aligned, and both values stand in the aligned list.
C17_Witness ==
    /\ a_pc = "aligned"
    /\ \E i, j \in SamplesAt(df_kospi, generate_full_timeline[6]) :
          /\ i < j
          /\ df_kospi[i].nowVal # <<>>
          /\ df_kospi[j].nowVal # <<>>
          /\ df_kospi[i].nowVal # df_kospi[j].nowVal
          /\ Len(kospi_nums) > 6
          /\ {kospi_nums[6], kospi_nums[7]}
                = {df_kospi[i].nowVal, df_kospi[j].nowVal}

-----------------------------------------------------------------------------
(* Claims about get_valid_data                                             *)

ClaimSaturdayOrSunday(day) == (day - ClaimMonday) % 7 \in {5, 6}

ClaimDigits == <<"0", "1", "2", "3", "4", "5", "6", "7", "8", "9">>

\* YYYYMMDD of a day of December 2026 or January 2027 (day 20818 is
\* 2026-12-31).
ClaimDateText(day) ==
    LET n == IF day <= 20818 THEN day - 20787 ELSE day - 20818
        month == IF day <= 20818
                 THEN <<"2", "0", "2", "6", "1", "2">>
                 ELSE <<"2", "0", "2", "7", "0", "1">>
    IN month \o <<ClaimDigits[(n \div 10) + 1], ClaimDigits[(n % 10) + 1]>>

\* The weekdays among the dates of days, in order.
WeekdaysOf(days) == SelectSeq(days, LAMBDA d : ~ClaimSaturdayOrSunday(d))

FetchedDates == [i \in 1..Len(v_fetched) |-> v_fetched[i].date]

\* The fetches that gave a non-empty frame for KOSPI or for KOSDAQ.
FetchesWithData ==
    { i \in 1..Len(v_fetched) :
        v_fetched[i].df_kospi # <<>> \/ v_fetched[i].df_kosdaq # <<>> }

\* C19: get_valid_data examines at most 10 consecutive calendar dates
\* backwards from start_date, start_date included; Saturdays and Sundays
\* count toward the 10 and are never fetched, every examined weekday is
\* fetched; it returns the frames and the date string of the first examined
\* weekday with a non-empty KOSPI or KOSDAQ frame and stops there; if no
\* examined weekday has data it returns two empty frames and no date after
\* all 10 dates.
C19_LookbackTenDays ==
    /\ v_pc \in {"loop", "done"} =>
         /\ Len(v_examined) <= 10
         /\ \A i \in 1..Len(v_examined) :
               v_examined[i] = start_date - (i - 1)
         /\ FetchedDates = WeekdaysOf(v_examined)
         /\ v_pc = "loop" => FetchesWithData = {}
    /\ v_pc = "done" =>
         IF FetchesWithData = {}
         THEN /\ Len(v_examined) = 10
              /\ v_result.df_kospi = <<>>
              /\ v_result.df_kosdaq = <<>>
              /\ v_result.date_str = <<>>
         ELSE LET last == v_fetched[Len(v_fetched)] IN
              /\ FetchesWithData = {Len(v_fetched)}
              /\ last.date = v_examined[Len(v_examined)]
              /\ v_result.date_str = <<ClaimDateText(last.date)>>
              /\ v_result.df_kospi = last.df_kospi
              /\ v_result.df_kosdaq = last.df_kosdaq
              /\ \A i \in 1..Len(last.df_kospi) :
                    last.df_kospi[i].thistime = ClaimDateText(last.date)
              /\ \A i \in 1..Len(last.df_kosdaq) :
                    last.df_kosdaq[i].thistime = ClaimDateText(last.date)

\* C19: started on a Sunday, the look-back skipped the weekend, found the
\* Friday without data and returned the Thursday, for which only the
\* KOSDAQ frame has rows.
C19_Witness ==
    /\ v_pc = "done"
    /\ (start_date - ClaimMonday) % 7 = 6
    /\ Len(v_examined) = 4
    /\ Len(v_fetched) = 2
    /\ v_result.df_kospi = <<>>
    /\ v_result.df_kosdaq # <<>>
    /\ v_result.date_str # <<>>

\* C19: the look-back ran over all ten dates without finding data.
C19_WitnessNoData ==
    /\ v_pc = "done"
    /\ Len(v_examined) = 10
    /\ v_result.date_str = <<>>

-----------------------------------------------------------------------------
(* Further claims about _get_latest_kospi_night_futures_cached             *)

\* The candidates whose fetch raised, by position.
RaisedCalls ==
    { k \in 1..Len(fetch_calls) : fetch_calls[k].outcome.kind = "raise" }

LastRaised == CHOOSE k \in RaisedCalls : \A j \in RaisedCalls : j <= k

\* One debug entry per candidate tried, in the order tried.
LogFollowsCalls ==
    /\ Len(debug_logs) = Len(fetch_calls)
    /\ Len(fetch_calls) <= Len(bas_dd_candidates)
    /\ \A k \in 1..Len(fetch_calls) :
          /\ fetch_calls[k].bas_dd = bas_dd_candidates[k]
          /\ debug_logs[k].request_bas_dd = bas_dd_candidates[k]
          /\ (debug_logs[k].status = "error") <=> (k \in RaisedCalls)
          /\ (debug_logs[k].status = "ok") <=> (k \notin RaisedCalls)

\* C20: when the search ends without a selected row, the message is the
\* API-call-failure message with the error of the last candidate whose
\* fetch raised if and only if some candidate's fetch raised, even when
\* later candidates were fetched and had no matching row; otherwise it is
\* the no-data message.  In every outcome the debug log holds one entry
\* per candidate tried, in the order tried.
C20_FailureMessage ==
    /\ s_pc \in {"loop", "done"} => LogFollowsCalls
    /\ (s_pc = "done" /\ s_result.row = <<>>) =>
          IF RaisedCalls # {}
          THEN s_result.message =
                  <<"KRX API call failed",
                    fetch_calls[LastRaised].outcome.message>>
          ELSE s_result.message =
                  <<"no night KOSPI200 futures data in the last 10 days">>

\* C20: the fetch of the first candidate raised one error, that of the
\* second another, the candidates after it were fetched and had no
\* matching row, and the search ended with the second error's message.
C20_Witness ==
    /\ s_pc = "done"
    /\ s_result.row = <<>>
    /\ Len(fetch_calls) >= 3
    /\ RaisedCalls = {1, 2}
    /\ fetch_calls[1].outcome.message # fetch_calls[2].outcome.message
    /\ s_result.message =
          <<"KRX API call failed", fetch_calls[2].outcome.message>>
    /\ Len(debug_logs) = Len(fetch_calls)

=============================================================================
